---- MODULE Spec2Model ----
\* Verification model of the MongoDB-wire-protocol gateway's command
\* translation layer: the filter compiler (where.go), the projection compiler
\* and post-filter, the upsert synthesis and ObjectID generation (common
\* package), the Bool and OpQuery codecs, the command registry and the
\* process's start-up and exit (cmd/ferretdb).
EXTENDS Integers, Sequences, FiniteSets, TLC

VARIABLES pc, call, ret, objectIDCounter, objectIDProcess, clock, issued, hanaPool

vars == <<pc, call, ret, objectIDCounter, objectIDProcess, clock, issued, hanaPool>>

\* the backend while no handler that uses it runs
NoPool == [tables |-> <<>>, fails |-> FALSE]

-----------------------------------------------------------------------------
\* Bounds of the model.

\* longest array operand of $in/$nin and of $and/$or/$nor
MaxArrayLen == 2
\* deepest nesting of $not inside a field expression
MaxNot == 2
\* largest number of top-level keys of a filter document
MaxFilterKeys == 2
\* largest number of keys of an upsert filter, $set or replacement document
MaxUpsertKeys == 2
\* largest number of ObjectIDs generated in one run
MaxGenerated == 2
\* largest number of keys of a projection document
MaxProjectionKeys == 3
\* largest number of documents handed to the projection post-filter
MaxDocs == 1
\* number of goroutines that may call generateObjectID at the same time
MaxGoroutines == 2
\* number of seconds the clock may advance
MaxTicks == 1
\* largest number of elements of a document on the wire
MaxWireKeys == 1
\* largest number of tables of a database of the backend
MaxTables == 2

-----------------------------------------------------------------------------
\* Typed values (internal/types): every value carries its type tag.

Int32V(i) == [t |-> "int32", i |-> i]
Int64V(i) == [t |-> "int64", l |-> i]
Float64V(i) == [t |-> "float64", f |-> i]
StringV(s) == [t |-> "string", s |-> s]
BoolV(b) == [t |-> "bool", b |-> b]
RegexV(pattern, options) == [t |-> "regex", Pattern |-> pattern, Options |-> options]
ArrayV(a) == [t |-> "array", a |-> a]
NilV == [t |-> "nil"]
\* types.ObjectID: bytes 0..3 (seconds), bytes 4..8 (process), bytes 9..11 (counter)
ObjectIDV(ts, proc, c) == [t |-> "objectId", ts |-> ts, proc |-> proc, c |-> c]

\* types.MustMakeDocument: an ordered document built from <<key, value>> pairs
MustMakeDocument(pairs) ==
    [t |-> "doc",
     keys |-> [i \in 1..Len(pairs) |-> pairs[i][1]],
     m |-> [k \in {pairs[i][1] : i \in 1..Len(pairs)} |->
               pairs[CHOOSE i \in 1..Len(pairs) : pairs[i][1] = k][2]]]

EmptyDoc == MustMakeDocument(<<>>)

HasKey(d, k) == k \in DOMAIN d.m

\* Document.Set: a new key goes to the end, an existing key keeps its place
Set(d, key, value) ==
    [t |-> "doc",
     keys |-> IF key \in DOMAIN d.m THEN d.keys ELSE Append(d.keys, key),
     m |-> [k \in DOMAIN d.m \cup {key} |-> IF k = key THEN value ELSE d.m[k]]]

\* the orders in which a range over Document.Map() may visit the keys
MapOrders(d) ==
    {o \in [1..Len(d.keys) -> DOMAIN d.m] : \A k \in DOMAIN d.m : \E i \in 1..Len(d.keys) : o[i] = k}

\* strings.HasPrefix(key, "$") over the keys the model uses
DollarKeys ==
    {"$and", "$or", "$nor", "$xor", "$set", "$inc", "$eq", "$ne", "$lt", "$lte",
     "$gt", "$gte", "$in", "$nin", "$regex", "$options", "$not", "$exists",
     "$slice", "$comment"}

HasDollarPrefix(key) == key \in DollarKeys

\* the characters of the option strings the model uses, in order
Chars(s) ==
    CASE s = "" -> <<>>
      [] s = "i" -> <<"i">>
      [] s = "x" -> <<"x">>
      [] s = "ix" -> <<"i", "x">>
      [] s = "xi" -> <<"x", "i">>
      [] s = "ii" -> <<"i", "i">>

-----------------------------------------------------------------------------
\* SQL text is a sequence of the string pieces the code concatenates; a
\* placeholder is the piece returned by Placeholder.Next().

Ph(n) == "$" \o ToString(n)

\* the positions of sql that hold a placeholder; p0 is the allocator's state
\* before the compilation, so that no number above p0 + Len(sql) can occur
PlaceholderPositions(sql, p0) ==
    {i \in 1..Len(sql) : \E n \in 1..(p0 + Len(sql)) : sql[i] = Ph(n)}

CountPlaceholders(sql, p0) == Cardinality(PlaceholderPositions(sql, p0))

\* result of a compiler function: SQL, args, error kind and the allocator
Result(sql, args, err, p) == [sql |-> sql, args |-> args, err |-> err, p |-> p]

\* the options a regex compiles to, and whether some option is unhandled
RECURSIVE regexOptions(_, _, _)
\* the options loop passing over an unhandled option without an error
regexOptions_SkipsUnhandled(opts, acc, bad) ==
    IF opts = <<>> THEN [options |-> acc, bad |-> bad]
    ELSE IF Head(opts) = "i" THEN regexOptions(Tail(opts), acc \o "i", bad)
    ELSE regexOptions(Tail(opts), acc, bad)

regexOptions(opts, acc, bad) ==
    IF opts = <<>> THEN [options |-> acc, bad |-> bad]
    ELSE IF Head(opts) = "i" THEN regexOptions(Tail(opts), acc \o "i", bad)
    ELSE regexOptions(Tail(opts), acc, TRUE)

ObjectIDJSON(v) == "{\"$o\":\"" \o ToString(v.c) \o "\"}"

\* scalar with the regex argument appended only when options are present
scalar_RegexArgOnlyWithOptions(v, p) ==
    CASE v.t = "int32" ->
           Result(<<"to_jsonb(", Ph(p + 1), "::int4)">>, <<v>>, "nil", p + 1)
      [] v.t = "string" ->
           Result(<<"to_jsonb(", Ph(p + 1), "::text)">>, <<v>>, "nil", p + 1)
      [] v.t = "objectId" ->
           Result(<<Ph(p + 1)>>, <<StringV(ObjectIDJSON(v))>>, "nil", p + 1)
      [] v.t = "regex" ->
           LET o == regexOptions(Chars(v.Options), "", FALSE)
           IN Result(<<Ph(p + 1)>>,
                     IF o.options # ""
                     THEN <<StringV("(?" \o o.options \o ")" \o v.Pattern)>>
                     ELSE <<>>,
                     IF o.bad THEN "internal" ELSE "nil", p + 1)
      [] OTHER -> Result(<<>>, <<NilV>>, "internal", p)

scalar(v, p) ==
    CASE v.t = "int32" ->
           Result(<<"to_jsonb(", Ph(p + 1), "::int4)">>, <<v>>, "nil", p + 1)
      [] v.t = "string" ->
           Result(<<"to_jsonb(", Ph(p + 1), "::text)">>, <<v>>, "nil", p + 1)
      [] v.t = "objectId" ->
           Result(<<Ph(p + 1)>>, <<StringV(ObjectIDJSON(v))>>, "nil", p + 1)
      [] v.t = "regex" ->
           LET o == regexOptions(Chars(v.Options), "", FALSE)
               arg == IF o.options # "" THEN "(?" \o o.options \o ")" \o v.Pattern
                      ELSE v.Pattern
           IN Result(<<Ph(p + 1)>>, <<StringV(arg)>>,
                     IF o.bad THEN "internal" ELSE "nil", p + 1)
      [] OTHER -> Result(<<>>, <<NilV>>, "internal", p)

\* common.InArray: "(" item, item ... ")"
RECURSIVE InArrayFrom(_, _, _, _, _)
InArrayFrom(a, i, sql, args, p) ==
    IF i > Len(a) THEN Result(Append(sql, ")"), args, "nil", p)
    ELSE LET sql1 == IF i # 1 THEN Append(sql, ", ") ELSE sql
             r == scalar(a[i], p)
         IN IF r.err # "nil" THEN Result(sql1, args, r.err, r.p)
            ELSE InArrayFrom(a, i + 1, sql1 \o r.sql, args \o r.args, r.p)

InArray(a, p) == InArrayFrom(a, 1, <<"(">>, <<>>, p)

CompareOps ==
    [op \in {"$eq", "$ne", "$lt", "$lte", "$gt", "$gte"} |->
        CASE op = "$eq" -> " ="
          [] op = "$ne" -> " <>"
          [] op = "$lt" -> " <"
          [] op = "$lte" -> " <="
          [] op = "$gt" -> " >"
          [] op = "$gte" -> " >="]

RECURSIVE fieldExpr(_, _, _)
RECURSIVE fieldExprFrom(_, _, _, _, _, _)

\* the operator switch with $options silently overriding the regex's own options
fieldExprOp_OptionsOverride(field, expr, op, value, p) ==
    LET filterMap == expr.m IN
    CASE op \in {"$in", "$nin"} ->
           IF value.t # "array" THEN Result(<<>>, <<>>, "panic", p)
           ELSE LET r == InArray(value.a, p + 1)
                IN Result(<<"_jsonb->", Ph(p + 1), IF op = "$in" THEN " IN" ELSE " NOT IN">>
                            \o <<" ">> \o r.sql,
                          r.args, r.err, r.p)
      [] op \in DOMAIN CompareOps ->
           LET r == scalar(value, p + 1)
           IN Result(<<"_jsonb->", Ph(p + 1), CompareOps[op]>> \o <<" ">> \o r.sql,
                     r.args, r.err, r.p)
      [] op = "$regex" ->
           LET hasOpts == "$options" \in DOMAIN filterMap
               opts == IF hasOpts THEN filterMap["$options"] ELSE StringV("")
           IN IF opts.t # "string" THEN Result(<<>>, <<>>, "BadValue", p)
              ELSE LET options == opts.s
                       head == <<"_jsonb->>", Ph(p + 1), " ~">>
                   IN CASE value.t = "string" ->
                             LET r == scalar(RegexV(value.s, options), p + 1)
                             IN Result(head \o <<" ">> \o r.sql, r.args, r.err, r.p)
                        [] value.t = "regex" ->
                             LET v == IF options # ""
                                      THEN RegexV(value.Pattern, options)
                                      ELSE value
                                 r == scalar(v, p + 1)
                             IN Result(head \o <<" ">> \o r.sql, r.args, r.err, r.p)
                        [] OTHER -> Result(head, <<>>, "BadValue", p + 1)
      [] OTHER -> Result(<<>>, <<>>, "internal", p)

\* the operator switch of fieldExpr: the SQL and args one operator adds
fieldExprOp(field, expr, op, value, p) ==
    LET filterMap == expr.m IN
    CASE op \in {"$in", "$nin"} ->
           IF value.t # "array" THEN Result(<<>>, <<>>, "panic", p)
           ELSE LET r == InArray(value.a, p + 1)
                IN Result(<<"_jsonb->", Ph(p + 1), IF op = "$in" THEN " IN" ELSE " NOT IN">>
                            \o <<" ">> \o r.sql,
                          r.args, r.err, r.p)
      [] op \in DOMAIN CompareOps ->
           LET r == scalar(value, p + 1)
           IN Result(<<"_jsonb->", Ph(p + 1), CompareOps[op]>> \o <<" ">> \o r.sql,
                     r.args, r.err, r.p)
      [] op = "$regex" ->
           LET hasOpts == "$options" \in DOMAIN filterMap
               opts == IF hasOpts THEN filterMap["$options"] ELSE StringV("")
           IN IF opts.t # "string" THEN Result(<<>>, <<>>, "BadValue", p)
              ELSE LET options == opts.s
                       head == <<"_jsonb->>", Ph(p + 1), " ~">>
                   IN CASE value.t = "string" ->
                             LET r == scalar(RegexV(value.s, options), p + 1)
                             IN Result(head \o <<" ">> \o r.sql, r.args, r.err, r.p)
                        [] value.t = "regex" ->
                             IF options # "" /\ value.Options # ""
                             THEN Result(head, <<>>, "RegexOptions", p + 1)
                             ELSE LET v == IF options # ""
                                           THEN RegexV(value.Pattern, options)
                                           ELSE value
                                      r == scalar(v, p + 1)
                                  IN Result(head \o <<" ">> \o r.sql, r.args, r.err, r.p)
                        [] OTHER -> Result(head, <<>>, "BadValue", p + 1)
      [] OTHER -> Result(<<>>, <<>>, "internal", p)

fieldExprFrom(field, expr, i, sql, args, p) ==
    IF i > Len(expr.keys) THEN Result(sql, args, "nil", p)
    ELSE
      LET op == expr.keys[i]
          value == expr.m[op]
      IN
      IF op = "$options" THEN fieldExprFrom(field, expr, i + 1, sql, args, p)
      ELSE
        LET sql1 == IF sql # <<>> THEN Append(sql, " AND") ELSE sql
            sql2 == IF sql1 # <<>> THEN Append(sql1, " ") ELSE sql1
        IN
        IF op = "$not" THEN
          IF value.t # "doc" THEN Result(Append(sql2, "NOT("), args, "panic", p)
          ELSE LET r == fieldExpr(field, value, p)
               IN IF r.err # "nil" THEN Result(Append(sql2, "NOT("), args, r.err, r.p)
                  ELSE fieldExprFrom(field, expr, i + 1,
                                     Append(sql2, "NOT(") \o r.sql \o <<")">>,
                                     args \o r.args, r.p)
        ELSE
          LET args2 == Append(args, StringV(field))
              r == fieldExprOp(field, expr, op, value, p)
          IN IF r.err # "nil" THEN Result(sql2 \o r.sql, args2, r.err, r.p)
             ELSE fieldExprFrom(field, expr, i + 1, sql2 \o r.sql,
                                args2 \o r.args, r.p)

\* fieldExpr handles {field: {expr}}
fieldExpr(field, expr, p) == fieldExprFrom(field, expr, 1, <<>>, <<>>, p)

RECURSIVE wherePair(_, _, _)
RECURSIVE LogicExprKeys(_, _, _, _, _)
RECURSIVE LogicExprFrom(_, _, _, _, _, _)

\* common.LogicExpr, inner loop: the pairs of one operand document
LogicExprKeys(expr, j, sql, args, p) ==
    IF j > Len(expr.keys) THEN Result(sql, args, "nil", p)
    ELSE LET sql1 == IF j # 1 THEN Append(sql, " AND ") ELSE sql
             r == wherePair(expr.keys[j], expr.m[expr.keys[j]], p)
         IN IF r.err # "nil" THEN Result(sql1, args, r.err, r.p)
            ELSE LogicExprKeys(expr, j + 1, sql1 \o <<"(">> \o r.sql \o <<")">>,
                               args \o r.args, r.p)

\* common.LogicExpr, outer loop: the operand documents of $and/$or/$nor
LogicExprFrom(op, exprs, i, sql, args, p) ==
    IF i > Len(exprs)
    THEN Result(IF op = "$nor" THEN Append(sql, ")") ELSE sql, args, "nil", p)
    ELSE
      LET known == op \in {"$and", "$or", "$nor"}
          sql1 == IF i # 1 /\ known
                  THEN Append(sql, IF op = "$and" THEN " AND " ELSE " OR ")
                  ELSE sql
      IN IF i # 1 /\ ~known THEN Result(sql, args, "BadValue", p)
         ELSE IF exprs[i].t # "doc" THEN Result(sql1, args, "panic", p)
         ELSE LET r == LogicExprKeys(exprs[i], 1, sql1, args, p)
              IN IF r.err # "nil" THEN r
                 ELSE LogicExprFrom(op, exprs, i + 1, r.sql, r.args, r.p)

LogicExpr(op, exprs, p) ==
    LogicExprFrom(op, exprs, 1, IF op = "$nor" THEN <<"NOT (">> ELSE <<>>, <<>>, p)

\* wherePair appending the field name after the value's args
wherePair_KeyArgLast(key, value, p) ==
    IF HasDollarPrefix(key) THEN
      IF value.t # "array" THEN Result(<<>>, <<>>, "panic", p)
      ELSE LogicExpr(key, value.a, p)
    ELSE IF value.t = "doc" THEN fieldExpr(key, value, p)
    ELSE
      LET head == IF value.t = "regex" THEN <<"_jsonb->>", Ph(p + 1), " ~ ">>
                  ELSE <<"_jsonb->", Ph(p + 1), " = ">>
          r == scalar(value, p + 1)
      IN Result(head \o r.sql, r.args \o <<StringV(key)>>, r.err, r.p)

wherePair(key, value, p) ==
    IF HasDollarPrefix(key) THEN
      IF value.t # "array" THEN Result(<<>>, <<>>, "panic", p)
      ELSE LogicExpr(key, value.a, p)
    ELSE IF value.t = "doc" THEN fieldExpr(key, value, p)
    ELSE
      LET head == IF value.t = "regex" THEN <<"_jsonb->>", Ph(p + 1), " ~ ">>
                  ELSE <<"_jsonb->", Ph(p + 1), " = ">>
          r == scalar(value, p + 1)
      IN Result(head \o r.sql, <<StringV(key)>> \o r.args, r.err, r.p)

RECURSIVE whereFrom(_, _, _, _, _)
whereFrom(filter, i, sql, args, p) ==
    IF i > Len(filter.keys) THEN Result(sql, args, "nil", p)
    ELSE LET key == filter.keys[i]
             sql1 == IF i # 1 THEN Append(sql, " AND") ELSE sql
             r == wherePair(key, filter.m[key], p)
         IN IF r.err # "nil" THEN Result(sql1, args, r.err, r.p)
            ELSE whereFrom(filter, i + 1, sql1 \o <<" (">> \o r.sql \o <<")">>,
                           args \o r.args, r.p)

where(filter, p) ==
    IF DOMAIN filter.m = {} THEN Result(<<>>, <<>>, "nil", p)
    ELSE whereFrom(filter, 1, <<" WHERE">>, <<>>, p)

-----------------------------------------------------------------------------
\* Inputs of the filter compiler.

SeqsUpTo(S, n) == UNION {[1..k -> S] : k \in 0..n}

Doc1(k, v) == MustMakeDocument(<<<<k, v>>>>)
Doc2(k1, v1, k2, v2) == MustMakeDocument(<<<<k1, v1>>, <<k2, v2>>>>)

FilterScalars ==
    {Int32V(5), StringV("x"), ObjectIDV(0, <<0, 0, 0, 0, 0>>, 1), RegexV("a", ""), RegexV("a", "i"),
     RegexV("a", "xi"), RegexV("a", "ix"), Float64V(1)}

ArrayItems == {Int32V(5), StringV("x"), Float64V(1)}

ScalarArrays == {ArrayV(a) : a \in SeqsUpTo(ArrayItems, MaxArrayLen)}

RegexOperands == {StringV("a"), RegexV("a", ""), RegexV("a", "i"), Int32V(5)}
OptionsOperands == {StringV(""), StringV("i"), StringV("x"), StringV("xi"), Int32V(1)}

\* field expressions without $not
BaseExprs ==
    {EmptyDoc, Doc1("$options", StringV("i")), Doc1("$exists", BoolV(TRUE)),
     Doc1("$in", Int32V(5)), Doc1("$nin", Int32V(5)),
     Doc2("$gt", Int32V(5), "$lt", StringV("x")),
     Doc2("$gt", Int32V(5), "$exists", BoolV(TRUE))}
    \cup {Doc1(op, v) : op \in DOMAIN CompareOps, v \in {Int32V(5), RegexV("a", "x")}}
    \cup {Doc1(op, a) : op \in {"$in", "$nin"}, a \in ScalarArrays}
    \cup {Doc1("$regex", v) : v \in RegexOperands}
    \cup {Doc2("$regex", v, "$options", o) : v \in RegexOperands, o \in OptionsOperands}
    \cup {Doc2("$options", o, "$regex", v) : v \in RegexOperands, o \in OptionsOperands}

\* field expressions nesting $not exactly d times
RECURSIVE NotExprs(_)
NotExprs(d) ==
    IF d = 0 THEN BaseExprs
    ELSE {Doc1("$not", e) : e \in NotExprs(d - 1)}

FieldExprs ==
    UNION {NotExprs(d) : d \in 0..MaxNot}
    \cup {Doc1("$not", Int32V(5)),
          Doc2("$eq", Int32V(5), "$not", Doc1("$gt", Int32V(5))),
          Doc2("$not", Doc1("$regex", RegexV("a", "i")), "$ne", StringV("x"))}

\* operand documents of $and/$or/$nor
LogicOperands ==
    {Doc1("a", Doc1("$in", ArrayV(<<Int32V(5), StringV("x")>>))),
     Doc2("a", RegexV("a", "i"), "b", Doc1("$not", Doc1("$eq", StringV("x")))),
     Doc1("$or", ArrayV(<<Doc1("a", StringV("x"))>>)),
     Doc1("a", Float64V(1))}

LogicPairs ==
    {<<op, ArrayV(a)>> : op \in {"$and", "$or", "$nor"},
                         a \in SeqsUpTo(LogicOperands, MaxArrayLen)}
    \cup {<<"$and", Int32V(5)>>, <<"$or", ArrayV(<<Int32V(5)>>)>>,
          <<"$xor", ArrayV(<<Doc1("a", Int32V(5)), Doc1("b", Int32V(5))>>)>>}

FirstPairs ==
    {<<"a", v>> : v \in FilterScalars \cup FieldExprs} \cup LogicPairs

\* the pairs that may follow the first one, under the k-th further key
FurtherKeys == <<"b", "c", "d", "e">>
FurtherValues ==
    {RegexV("a", "i"), Doc1("$not", Doc1("$eq", StringV("x"))), Float64V(1)}

RECURSIVE FurtherPairs(_)
FurtherPairs(n) ==
    IF n = 0 THEN {<<>>}
    ELSE LET shorter == FurtherPairs(n - 1)
         IN shorter \cup {Append(s, <<FurtherKeys[n], v>>) :
                            s \in {x \in shorter : Len(x) = n - 1}, v \in FurtherValues}

Filters ==
    {EmptyDoc} \cup {MustMakeDocument(<<f>> \o s) :
                        f \in FirstPairs, s \in FurtherPairs(MaxFilterKeys - 1)}
                \cup {MustMakeDocument(s \o <<f>>) :
                        f \in LogicPairs, s \in FurtherPairs(MaxFilterKeys - 1)}

-----------------------------------------------------------------------------
\* The state machine: a caller invokes one operation on inputs it chooses and
\* then takes the result.

NoCall == [op |-> "none"]
NoRet == [op |-> "none"]

Return ==
    /\ pc = "done"
    /\ pc' = "idle"
    /\ call' = NoCall
    /\ ret' = NoRet
    /\ UNCHANGED <<objectIDCounter, objectIDProcess, clock, issued, hanaPool>>

CallWhere ==
    /\ pc = "idle"
    /\ \E filter \in Filters, p \in {0, 2} :
          /\ call' = [op |-> "where", filter |-> filter, p |-> p]
          /\ ret' = where(filter, p)
    /\ pc' = "done"
    /\ UNCHANGED <<objectIDCounter, objectIDProcess, clock, issued, hanaPool>>

InitWhere ==
    /\ pc = "idle"
    /\ call = NoCall
    /\ ret = NoRet
    /\ objectIDCounter = [hi |-> 0, lo |-> 0]
    /\ objectIDProcess = <<0, 0, 0, 0, 0>>
    /\ clock = 0
    /\ issued = <<>>
    /\ hanaPool = NoPool

NextWhere == CallWhere \/ Return

SpecWhere == InitWhere /\ [][NextWhere]_vars

WhereReturned == pc = "done" /\ call.op = "where" /\ ret.err = "nil"

\* C1: whenever where() returns without error, the number of placeholders in
\* the returned SQL equals the number of returned args.
C1_PlaceholdersEqualArgs ==
    WhereReturned => CountPlaceholders(ret.sql, call.p) = Len(ret.args)

\* C1 witness: a filter nesting $not, $in and a logical operator compiled
\* without error into SQL that carries several placeholders.
C1_Witness ==
    /\ WhereReturned
    /\ Len(call.filter.keys) = 2
    /\ call.filter.keys[1] = "$nor"
    /\ Len(call.filter.m["$nor"].a) = 2
    /\ call.filter.m["b"] = Doc1("$not", Doc1("$eq", StringV("x")))
    /\ Len(ret.args) >= 6
    /\ CountPlaceholders(ret.sql, call.p) = Len(ret.args)

\* where() has returned, with or without an error, for a filter whose first
\* pair is {a: ...}
WhereDoneOnA ==
    /\ pc = "done"
    /\ call.op = "where"
    /\ call.filter.keys # <<>>
    /\ call.filter.keys[1] = "a"

\* the field expression below the $not operators that wrap it
RECURSIVE StripNot(_)
StripNot(e) ==
    IF e.t = "doc" /\ e.keys = <<"$not">> /\ e.m["$not"].t = "doc"
    THEN StripNot(e.m["$not"])
    ELSE e

\* e holds only $regex and $options (in either order), $regex being present
RegexExpr(e) ==
    /\ e.t = "doc"
    /\ HasKey(e, "$regex")
    /\ \A i \in 1..Len(e.keys) : e.keys[i] \in {"$regex", "$options"}

\* the $regex value carries options and $options is a non-empty string
RegexWithBothOptions(e) ==
    /\ RegexExpr(e)
    /\ HasKey(e, "$options")
    /\ e.m["$regex"].t = "regex"
    /\ e.m["$regex"].Options # ""
    /\ e.m["$options"].t = "string"
    /\ e.m["$options"].s # ""

\* C11: compiling a field expression whose $regex value is a regex that
\* carries options, next to a non-empty $options string, fails with the
\* RegexOptions error, in whichever order the two keys stand and under any
\* number of $not operators.
C11_RegexOptionsConflict ==
    (WhereDoneOnA /\ RegexWithBothOptions(StripNot(call.filter.m["a"])))
        => ret.err = "RegexOptions"

\* C11 witness: {a: {$not: {$options: "x", $regex: /a/i}}}, with $options
\* standing before $regex, has failed with RegexOptions.
C11_Witness ==
    /\ WhereDoneOnA
    /\ call.filter.m["a"] =
           Doc1("$not", Doc2("$options", StringV("x"), "$regex", RegexV("a", "i")))
    /\ ret.err = "RegexOptions"

\* the operators the switch of fieldExpr handles
KnownOperators ==
    DOMAIN CompareOps \cup {"$in", "$nin", "$regex", "$options", "$not"}

\* C12: a field expression whose first operator is a $-operator that
\* fieldExpr does not handle fails with a BadValue command error.
C12_UnknownOperatorBadValue ==
    (/\ WhereDoneOnA
     /\ call.filter.m["a"].t = "doc"
     /\ call.filter.m["a"].keys # <<>>
     /\ HasDollarPrefix(call.filter.m["a"].keys[1])
     /\ call.filter.m["a"].keys[1] \notin KnownOperators)
        => ret.err = "BadValue"

\* the regex that the value v of a pair {a: v} asks for, with the options
\* that apply to it; NilV if v asks for none or asks for it wrongly
AskedRegex(v) ==
    IF v.t = "regex" THEN v
    ELSE IF ~RegexExpr(v) THEN NilV
    ELSE LET value == v.m["$regex"]
             opts == IF HasKey(v, "$options") THEN v.m["$options"] ELSE StringV("")
         IN IF opts.t # "string" THEN NilV
            ELSE IF value.t = "string" THEN RegexV(value.s, opts.s)
            ELSE IF value.t # "regex" THEN NilV
            ELSE IF opts.s = "" THEN value
            ELSE IF value.Options = "" THEN RegexV(value.Pattern, opts.s)
            ELSE NilV

\* some character of the options is not i
HasUnsupportedOption(options) ==
    \E i \in 1..Len(Chars(options)) : Chars(options)[i] # "i"

\* C13: for a filter {a: v} where v is a regex value or {$regex, $options}:
\* options holding a character other than i make where() fail, wherever the
\* character stands; the options i give the argument (?i) followed by the
\* pattern; no options give the bare pattern.
C13_RegexOptionsCompile ==
    (WhereDoneOnA /\ Len(call.filter.keys) = 1
                  /\ AskedRegex(call.filter.m["a"]) # NilV)
        => LET r == AskedRegex(call.filter.m["a"])
           IN /\ HasUnsupportedOption(r.Options) => ret.err # "nil"
              /\ r.Options = "i" =>
                    /\ ret.err = "nil"
                    /\ ret.args = <<StringV("a"), StringV("(?i)" \o r.Pattern)>>
              /\ r.Options = "" =>
                    /\ ret.err = "nil"
                    /\ ret.args = <<StringV("a"), StringV(r.Pattern)>>

\* C13 witness: {a: {$regex: "a", $options: "xi"}}, whose unsupported option
\* stands before a supported one, has failed.
C13_Witness ==
    /\ WhereDoneOnA
    /\ call.filter = Doc1("a", Doc2("$regex", StringV("a"), "$options", StringV("xi")))
    /\ ret.err # "nil"

\* the names of the fields the filters of the model compare
FieldNames == {"a", "b", "c", "d", "e"}

\* the number of placeholders of sql up to position i
PlaceholderRank(sql, p0, i) ==
    Cardinality({j \in PlaceholderPositions(sql, p0) : j <= i})

\* the placeholder at position i of sql is bound to the arg of its kind: a
\* field name after a JSON path operator, an int32 or a string inside the
\* cast of that type, a string where it stands alone
BoundToItsArg(sql, i, arg) ==
    IF sql[i - 1] \in {"_jsonb->", "_jsonb->>"}
    THEN \E f \in FieldNames : arg = StringV(f)
    ELSE IF sql[i - 1] = "to_jsonb("
    THEN \/ (sql[i + 1] = "::int4)" /\ arg.t = "int32")
         \/ (sql[i + 1] = "::text)" /\ arg.t = "string")
    ELSE arg.t = "string"

\* C23: in the SQL that where() returns, the k-th placeholder from the left
\* is the k-th one taken from the allocator, and it is bound to the k-th
\* element of args: the field name for a JSON-path placeholder, the value for
\* a value placeholder; also across $not and $and/$or/$nor.
C23_PlaceholderOrder ==
    WhereReturned =>
        \A i \in PlaceholderPositions(ret.sql, call.p) :
            LET k == PlaceholderRank(ret.sql, call.p, i)
            IN /\ ret.sql[i] = Ph(call.p + k)
               /\ k <= Len(ret.args)
               /\ i > 1
               /\ BoundToItsArg(ret.sql, i, ret.args[k])

\* C23 witness: a filter with $in under two $not and a regex under a logical
\* operator compiled, from an allocator already at 2, into SQL with placeholders
\* $3.. in order.
C23_Witness ==
    /\ WhereReturned
    /\ call.p = 2
    /\ call.filter.keys = <<"b", "$or">>
    /\ call.filter.m["b"] = Doc1("$not", Doc1("$eq", StringV("x")))
    /\ Len(call.filter.m["$or"].a) = 2
    /\ Len(ret.args) >= 6
    /\ \A i \in PlaceholderPositions(ret.sql, 2) :
          ret.sql[i] = Ph(2 + PlaceholderRank(ret.sql, 2, i))

\* C24: where() never ends in a panic, whatever the types of the operands.
C24_NeverPanics ==
    (pc = "done" /\ call.op = "where") => ret.err # "panic"

\* the positions of sql that open a top-level condition
ConditionStarts(sql) == {i \in 1..Len(sql) : sql[i] = " ("}

\* the placeholders of the condition that opens at position i: those before
\* the next top-level condition
ConditionPlaceholders(sql, p0, i) ==
    {j \in PlaceholderPositions(sql, p0) :
        j > i /\ \A n \in ConditionStarts(sql) : n > i => j < n}

\* the condition that opens at position i names no field or names field
\* first: its leftmost placeholder is bound to that field name
ConditionIsOn(sql, args, p0, i, field) ==
    \A j \in ConditionPlaceholders(sql, p0, i) :
        (\A k \in ConditionPlaceholders(sql, p0, i) : j <= k)
            => args[PlaceholderRank(sql, p0, j)] = StringV(field)

\* C26: where() returns empty SQL and no args for the empty filter; for a
\* non-empty filter that compiles it returns " WHERE" and one parenthesised
\* condition per top-level key, in the filter's key order, joined by " AND",
\* and none of these conditions is empty.
C26_WhereStructure ==
    WhereReturned =>
        IF call.filter.keys = <<>>
        THEN ret.sql = <<>> /\ ret.args = <<>>
        ELSE /\ ret.sql[1] = " WHERE"
             /\ Cardinality(ConditionStarts(ret.sql)) = Len(call.filter.keys)
             /\ \A i \in ConditionStarts(ret.sql) :
                   /\ i = 2 \/ ret.sql[i - 1] = " AND"
                   /\ ret.sql[i + 1] # ")"
                   /\ LET k == Cardinality({j \in ConditionStarts(ret.sql) : j <= i})
                          key == call.filter.keys[k]
                      IN ~HasDollarPrefix(key) =>
                            ConditionIsOn(ret.sql, ret.args, call.p, i, key)
             /\ ret.sql[Len(ret.sql)] = ")"

-----------------------------------------------------------------------------
\* ObjectID generation and upsert synthesis (common package).

\* the counter is a uint32, held as its most significant byte and its low 24 bits
TwoTo24 == 16777216

\* the counter read without being incremented
AddUint32_Load(c) == c

\* atomic.AddUint32(&objectIDCounter, 1)
AddUint32(c) ==
    IF c.lo + 1 < TwoTo24 THEN [hi |-> c.hi, lo |-> c.lo + 1]
    ELSE [hi |-> (c.hi + 1) % 256, lo |-> 0]

\* generateObjectID writing the counter's bytes in little-endian order
generateObjectID_LittleEndian(counter, now, process) ==
    LET c == AddUint32(counter)
    IN [objId |-> ObjectIDV(now, process,
                            <<c.lo % 256, (c.lo \div 256) % 256, (c.lo \div 65536) % 256>>),
        counter |-> c]

\* generateObjectID: the new id and the counter it leaves behind
generateObjectID(counter, now, process) ==
    LET c == AddUint32(counter)
    IN [objId |-> ObjectIDV(now, process,
                            <<(c.lo \div 65536) % 256, (c.lo \div 256) % 256, c.lo % 256>>),
        counter |-> c]

RECURSIVE filterUpsertFrom(_, _, _, _, _)

\* filterUpsert that seeds array-valued pairs as well
filterUpsertFrom_KeepsArrays(filter, order, i, doc, idFilter) ==
    IF i > Len(order) THEN [doc |-> doc, idFilter |-> idFilter, err |-> "nil"]
    ELSE LET key == order[i]
             value == filter.m[key]
         IN IF HasDollarPrefix(key) \/ value.t = "doc"
            THEN filterUpsertFrom(filter, order, i + 1, doc, idFilter)
            ELSE filterUpsertFrom(filter, order, i + 1, Set(doc, key, value),
                                  idFilter \/ key = "_id")

\* the loop of filterUpsert over filter.Map(), visited in the given order
filterUpsertFrom(filter, order, i, doc, idFilter) ==
    IF i > Len(order) THEN [doc |-> doc, idFilter |-> idFilter, err |-> "nil"]
    ELSE LET key == order[i]
             value == filter.m[key]
         IN IF HasDollarPrefix(key) \/ value.t = "doc" \/ value.t = "array"
            THEN filterUpsertFrom(filter, order, i + 1, doc, idFilter)
            ELSE filterUpsertFrom(filter, order, i + 1, Set(doc, key, value),
                                  idFilter \/ key = "_id")

filterUpsert(filter, order) == filterUpsertFrom(filter, order, 1, EmptyDoc, FALSE)

RECURSIVE updateUpsertFrom(_, _, _, _, _)

\* updateUpsert that never records that $set supplied _id
updateUpsertFrom_ForgetsIdUpdate(setDoc, order, i, d, idUpdate) ==
    IF i > Len(order) THEN [doc |-> d, idUpdate |-> idUpdate, err |-> "nil"]
    ELSE LET key == order[i]
             value == setDoc.m[key]
         IN IF HasDollarPrefix(key)
            THEN updateUpsertFrom(setDoc, order, i + 1, d, idUpdate)
            ELSE IF HasKey(d, key)
            THEN IF value = d.m[key]
                 THEN updateUpsertFrom(setDoc, order, i + 1, d, idUpdate)
                 ELSE [doc |-> NilV, idUpdate |-> FALSE, err |-> "internal"]
            ELSE updateUpsertFrom(setDoc, order, i + 1, Set(d, key, value), idUpdate)

\* the loop of updateUpsert over setDoc.Map(), visited in the given order
updateUpsertFrom(setDoc, order, i, d, idUpdate) ==
    IF i > Len(order) THEN [doc |-> d, idUpdate |-> idUpdate, err |-> "nil"]
    ELSE LET key == order[i]
             value == setDoc.m[key]
         IN IF HasDollarPrefix(key)
            THEN updateUpsertFrom(setDoc, order, i + 1, d, idUpdate)
            ELSE IF HasKey(d, key)
            THEN IF value = d.m[key]
                 THEN updateUpsertFrom(setDoc, order, i + 1, d, idUpdate)
                 ELSE [doc |-> NilV, idUpdate |-> FALSE, err |-> "internal"]
            ELSE updateUpsertFrom(setDoc, order, i + 1, Set(d, key, value),
                                  idUpdate \/ key = "_id")

\* the $set document of an update, if it has one
HasSetDoc(updateDoc) == HasKey(updateDoc, "$set") /\ updateDoc.m["$set"].t = "doc"

updateUpsert(updateDoc, idFilter, d, order) ==
    IF ~HasSetDoc(updateDoc) THEN [doc |-> d, idUpdate |-> FALSE, err |-> "nil"]
    ELSE updateUpsertFrom(updateDoc.m["$set"], order, 1, d, FALSE)

\* Upsert: filterOrder and setOrder are the orders in which the two map
\* ranges visit their keys; the error of updateUpsert is assigned and not read
Upsert(updateDoc, filter, replace, filterOrder, setOrder, counter, now, process) ==
    LET f == IF replace THEN [doc |-> NilV, idFilter |-> FALSE, err |-> "nil"]
             ELSE filterUpsert(filter, filterOrder)
        u == IF replace THEN [doc |-> updateDoc, idUpdate |-> FALSE, err |-> "nil"]
             ELSE updateUpsert(updateDoc, f.idFilter, f.doc, setOrder)
        g == generateObjectID(counter, now, process)
    IN IF f.err # "nil"
       THEN [doc |-> NilV, err |-> "internal", generated |-> FALSE, counter |-> counter]
       ELSE IF ~f.idFilter /\ ~u.idUpdate
       THEN IF u.doc = NilV
            THEN [doc |-> NilV, err |-> "panic", generated |-> TRUE, counter |-> g.counter]
            ELSE [doc |-> Set(u.doc, "_id", g.objId), err |-> "nil", generated |-> TRUE,
                  counter |-> g.counter]
       ELSE [doc |-> u.doc, err |-> "nil", generated |-> FALSE, counter |-> counter]

-----------------------------------------------------------------------------
\* Inputs of Upsert.

Range(f) == {f[i] : i \in DOMAIN f}

\* the ordered documents of at most n keys whose values come from vals[key]
DocsOver(vals, n) ==
    {MustMakeDocument([i \in 1..Len(ks) |-> <<ks[i], f[ks[i]]>>]) :
        <<ks, f>> \in UNION {{<<ks, f>> : f \in {g \in [Range(ks) -> UNION Range(vals)] :
                                                    \A k \in Range(ks) : g[k] \in vals[k]}} :
                              ks \in {x \in SeqsUpTo(DOMAIN vals, n) :
                                         \A i, j \in 1..Len(x) : i # j => x[i] # x[j]}}}

UpsertFilterValues ==
    [k \in {"_id", "k", "$or"} |->
        CASE k = "_id" -> {Int32V(1), Doc1("$gt", Int32V(1))}
          [] k = "k" -> {Int32V(5), Doc1("$gt", Int32V(5)), ArrayV(<<Int32V(5)>>)}
          [] k = "$or" -> {ArrayV(<<Doc1("k", Int32V(5))>>)}]

UpsertSetValues ==
    [k \in {"_id", "k", "v", "$inc"} |->
        CASE k = "_id" -> {Int32V(1), Int32V(2)}
          [] k = "k" -> {Int32V(5), Int32V(6)}
          [] k = "v" -> {StringV("y")}
          [] k = "$inc" -> {Int32V(1)}]

UpsertReplaceValues ==
    [k \in {"_id", "a", "b"} |->
        CASE k = "_id" -> {Int32V(7), ObjectIDV(0, <<0, 0, 0, 0, 0>>, <<0, 0, 1>>)}
          [] k = "a" -> {Int32V(1)}
          [] k = "b" -> {StringV("y")}]

UpsertFilters == DocsOver(UpsertFilterValues, MaxUpsertKeys)

UpsertUpdates ==
    {Doc1("$set", d) : d \in DocsOver(UpsertSetValues, MaxUpsertKeys)}
    \cup {Doc1("$inc", Doc1("k", Int32V(1))),
          Doc1("$set", Int32V(1)),
          Doc2("$inc", Doc1("n", Int32V(1)), "$set", Doc1("v", StringV("y")))}

UpsertReplacements == DocsOver(UpsertReplaceValues, MaxUpsertKeys)

Times == {1700000000}

RECURSIVE CounterAfter(_, _)
CounterAfter(c, n) == IF n = 0 THEN c ELSE CounterAfter(AddUint32(c), n - 1)

UpsertInitCounters == {[hi |-> 0, lo |-> 41]}

\* fewer than MaxGenerated ObjectIDs have been generated since start-up
MayGenerate(inits) ==
    \E c0 \in inits, n \in 0..(MaxGenerated - 1) : objectIDCounter = CounterAfter(c0, n)

SetOrders(updateDoc) ==
    IF HasSetDoc(updateDoc) THEN MapOrders(updateDoc.m["$set"]) ELSE {<<>>}

CallUpsert ==
    /\ pc = "idle"
    /\ MayGenerate(UpsertInitCounters)
    /\ \E updateDoc \in UpsertUpdates, filter \in UpsertFilters, now \in Times :
         \E filterOrder \in MapOrders(filter), setOrder \in SetOrders(updateDoc) :
           LET r == Upsert(updateDoc, filter, FALSE, filterOrder, setOrder,
                           objectIDCounter, now, objectIDProcess)
           IN /\ call' = [op |-> "Upsert", updateDoc |-> updateDoc, filter |-> filter,
                          replace |-> FALSE, filterOrder |-> filterOrder,
                          setOrder |-> setOrder, counter |-> objectIDCounter, now |-> now]
              /\ ret' = [doc |-> r.doc, err |-> r.err, generated |-> r.generated]
              /\ objectIDCounter' = r.counter
    /\ pc' = "done"
    /\ UNCHANGED <<objectIDProcess, clock, issued, hanaPool>>

CallUpsertReplace ==
    /\ pc = "idle"
    /\ MayGenerate(UpsertInitCounters)
    /\ \E updateDoc \in UpsertReplacements, filter \in {EmptyDoc, Doc1("_id", Int32V(7))},
          now \in Times :
           LET r == Upsert(updateDoc, filter, TRUE, <<>>, <<>>,
                           objectIDCounter, now, objectIDProcess)
           IN /\ call' = [op |-> "Upsert", updateDoc |-> updateDoc, filter |-> filter,
                          replace |-> TRUE, filterOrder |-> <<>>,
                          setOrder |-> <<>>, counter |-> objectIDCounter, now |-> now]
              /\ ret' = [doc |-> r.doc, err |-> r.err, generated |-> r.generated]
              /\ objectIDCounter' = r.counter
    /\ pc' = "done"
    /\ UNCHANGED <<objectIDProcess, clock, issued, hanaPool>>

InitUpsert ==
    /\ pc = "idle"
    /\ call = NoCall
    /\ ret = NoRet
    /\ objectIDCounter \in UpsertInitCounters
    /\ objectIDProcess = <<17, 34, 51, 68, 85>>
    /\ clock = 0
    /\ issued = <<>>
    /\ hanaPool = NoPool

NextUpsert == CallUpsert \/ CallUpsertReplace \/ Return

SpecUpsert == InitUpsert /\ [][NextUpsert]_vars

-----------------------------------------------------------------------------
\* Properties of Upsert.

UpsertReturned(replace) == pc = "done" /\ call.op = "Upsert" /\ call.replace = replace

\* the pairs of a filter that are equality pairs: the key is no operator and
\* the value is neither a document nor an array
EqualityKeys(filter) ==
    {k \in DOMAIN filter.m : ~HasDollarPrefix(k) /\ filter.m[k].t \notin {"doc", "array"}}

\* the pairs a $set contributes
SetKeys(updateDoc) ==
    IF HasSetDoc(updateDoc)
    THEN {k \in DOMAIN updateDoc.m["$set"].m : ~HasDollarPrefix(k)}
    ELSE {}

\* some key is an equality pair of the filter and is set to a different value
UpsertConflict(filter, updateDoc) ==
    \E k \in EqualityKeys(filter) \cap SetKeys(updateDoc) :
        filter.m[k] # updateDoc.m["$set"].m[k]

\* the ObjectID generated by the call: the counter after the call in bytes 9..11
NewObjectID ==
    ObjectIDV(call.now, objectIDProcess,
              <<(objectIDCounter.lo \div 65536) % 256, (objectIDCounter.lo \div 256) % 256,
                objectIDCounter.lo % 256>>)

\* C2: Upsert with replace=false fails with BadValue and returns no document
\* whenever a key is an equality pair of the filter and is in $set with a
\* different value.
C2_ConflictFailsWithBadValue ==
    (UpsertReturned(FALSE) /\ UpsertConflict(call.filter, call.updateDoc))
        => (ret.err = "BadValue" /\ ret.doc = NilV)

C5_ReplaceKeepsId ==
    UpsertReturned(TRUE) =>
        /\ ret.err = "nil"
        /\ HasKey(call.updateDoc, "_id") =>
              (ret.doc = call.updateDoc /\ ~ret.generated /\ objectIDCounter = call.counter)
        /\ ~HasKey(call.updateDoc, "_id") =>
              (ret.doc = Set(call.updateDoc, "_id", NewObjectID) /\ ret.generated)

\* the keys of seq, in order, that are in S
KeysIn(seq, S) == SelectSeq(seq, LAMBDA k : k \in S)

\* the key order the document of an upsert has when the maps are visited in
\* key order: seed keys, then the new keys of $set, then a generated _id
KeysInDocumentOrder(filter, updateDoc, generated) ==
    LET seed == KeysIn(filter.keys, EqualityKeys(filter))
        set == IF HasSetDoc(updateDoc)
               THEN KeysIn(updateDoc.m["$set"].keys,
                           SetKeys(updateDoc) \ EqualityKeys(filter))
               ELSE <<>>
    IN seed \o set \o (IF generated THEN <<"_id">> ELSE <<>>)

\* C25: a successful Upsert with replace=false returns a document whose keys
\* are the seed keys in the filter's key order, then the new $set keys in the
\* $set's key order, then a generated _id; every other call with the same
\* filter and update returns the same keys in the same order.
C25_UpsertKeyOrder ==
    (UpsertReturned(FALSE) /\ ret.err = "nil") =>
        /\ ret.doc.keys = KeysInDocumentOrder(call.filter, call.updateDoc, ret.generated)
        /\ \A filterOrder \in MapOrders(call.filter), setOrder \in SetOrders(call.updateDoc) :
              LET r == Upsert(call.updateDoc, call.filter, FALSE, filterOrder, setOrder,
                              call.counter, call.now, objectIDProcess)
              IN r.err = "nil" => r.doc.keys = ret.doc.keys

-----------------------------------------------------------------------------
\* Concurrent ObjectID generation: goroutines call generateObjectID while the
\* clock advances. A call reads the time, then takes its counter value with
\* one atomic add, then returns the id.

Goroutines == 1..MaxGoroutines

\* the counter's random start values, some of them just below a wrap of the
\* low 24 bits and of the whole uint32
ObjectIDInitCounters ==
    {[hi |-> 0, lo |-> 41], [hi |-> 0, lo |-> TwoTo24 - 1],
     [hi |-> 255, lo |-> TwoTo24 - 2]}

LastTime == CHOOSE t \in Times : \A u \in Times : u <= t

\* calls that have read the time and not yet taken their counter value
Timed == {g \in Goroutines : pc[g] = "timed"}

\* t := time.Now()
GenTime(g) ==
    /\ pc[g] = "idle"
    /\ Len(issued) + Cardinality(Timed) < MaxGenerated
    /\ pc' = [pc EXCEPT ![g] = "timed"]
    /\ call' = [call EXCEPT ![g] = [op |-> "generateObjectID", t |-> clock]]
    /\ UNCHANGED <<ret, objectIDCounter, objectIDProcess, clock, issued, hanaPool>>

\* c := atomic.AddUint32(&objectIDCounter, 1), and the bytes of the id
GenCount(g) ==
    /\ pc[g] = "timed"
    /\ LET r == generateObjectID(objectIDCounter, call[g].t, objectIDProcess)
       IN /\ objectIDCounter' = r.counter
          /\ ret' = [ret EXCEPT ![g] = r.objId]
          /\ issued' = Append(issued, [objId |-> r.objId, c |-> r.counter, g |-> g])
    /\ pc' = [pc EXCEPT ![g] = "counted"]
    /\ UNCHANGED <<call, objectIDProcess, clock, hanaPool>>

\* return res
GenReturn(g) ==
    /\ pc[g] = "counted"
    /\ pc' = [pc EXCEPT ![g] = "idle"]
    /\ call' = [call EXCEPT ![g] = NoCall]
    /\ ret' = [ret EXCEPT ![g] = NoRet]
    /\ UNCHANGED <<objectIDCounter, objectIDProcess, clock, issued, hanaPool>>

\* a second passes
Tick ==
    /\ clock < LastTime + MaxTicks
    /\ clock' = clock + 1
    /\ UNCHANGED <<pc, call, ret, objectIDCounter, objectIDProcess, issued, hanaPool>>

InitObjectID ==
    /\ pc = [g \in Goroutines |-> "idle"]
    /\ call = [g \in Goroutines |-> NoCall]
    /\ ret = [g \in Goroutines |-> NoRet]
    /\ objectIDCounter \in ObjectIDInitCounters
    /\ objectIDProcess = <<17, 34, 51, 68, 85>>
    /\ clock \in Times
    /\ issued = <<>>
    /\ hanaPool = NoPool

NextObjectID ==
    \/ \E g \in Goroutines : GenTime(g)
    \/ \E g \in Goroutines : GenCount(g)
    \/ \E g \in Goroutines : GenReturn(g)
    \/ Tick

SpecObjectID == InitObjectID /\ [][NextObjectID]_vars

\* the twelve bytes of an ObjectID: time (big-endian), process, counter
ObjectIDBytes(id) ==
    <<(id.ts \div TwoTo24) % 256, (id.ts \div 65536) % 256, (id.ts \div 256) % 256,
      id.ts % 256>> \o id.proc \o id.c

\* the number that bytes 9..11 of an ObjectID hold, read big-endian
CounterField(id) ==
    LET b == ObjectIDBytes(id) IN b[10] * 65536 + b[11] * 256 + b[12]

\* C14: no two calls of generateObjectID obtain the same counter value, and
\* two ObjectIDs generated within the same second differ, also when the calls
\* overlap.
C14_DistinctObjectIDs ==
    \A i, j \in 1..Len(issued) :
        i # j => /\ issued[i].c # issued[j].c
                 /\ issued[i].objId.ts = issued[j].objId.ts =>
                       issued[i].objId # issued[j].objId

\* C14 witness: two goroutines read the same second, both took their counter
\* value before either returned, and their ids differ.
C14_Witness ==
    /\ Len(issued) = 2
    /\ issued[1].g # issued[2].g
    /\ pc[issued[1].g] = "counted"
    /\ pc[issued[2].g] = "counted"
    /\ issued[1].objId.ts = issued[2].objId.ts
    /\ issued[1].objId # issued[2].objId

\* C15: every ObjectID holds the process identifier in bytes 4..8 and the low
\* 24 bits of the counter value it obtained, big-endian, in bytes 9..11; the
\* counter field of each id is that of the id generated before it plus one
\* modulo 2^24, also where the 32-bit counter wraps to 0.
C15_CounterField ==
    \A i \in 1..Len(issued) :
        LET b == ObjectIDBytes(issued[i].objId)
            low == issued[i].c.lo
        IN /\ Len(b) = 12
           /\ SubSeq(b, 5, 9) = objectIDProcess
           /\ SubSeq(b, 10, 12) = <<low \div 65536, (low \div 256) % 256, low % 256>>
           /\ i > 1 => CounterField(issued[i].objId) =
                          (CounterField(issued[i - 1].objId) + 1) % TwoTo24

\* C15 witness: the counter went from 2^32 - 1 to 0 between two ids, whose
\* counter fields are 2^24 - 1 and 0.
C15_Witness ==
    /\ Len(issued) = 2
    /\ issued[1].c = [hi |-> 255, lo |-> TwoTo24 - 1]
    /\ issued[2].c = [hi |-> 0, lo |-> 0]
    /\ CounterField(issued[1].objId) = TwoTo24 - 1
    /\ CounterField(issued[2].objId) = 0

-----------------------------------------------------------------------------
\* Projection compiler (common package).

UnimplementedProjectionFields == {"$", "$elemMatch", "$meta", "$slice", "$comment", "$rand"}

\* common.Unimplemented: NotImplemented if the document has one of the fields
Unimplemented(doc, fields) ==
    IF \E k \in fields : HasKey(doc, k) THEN "NotImplemented" ELSE "nil"

\* strings.Contains(k, ".") over the keys the model uses
DottedKeys == {"a.b", "a.b.c", "a.x", "x.b"}
IsDotted(k) == k \in DottedKeys

\* strings.Split(field, ".") over the keys the model uses
Split(field) ==
    CASE field = "a.b" -> <<"a", "b">>
      [] field = "a.b.c" -> <<"a", "b", "c">>
      [] field = "a.x" -> <<"a", "x">>
      [] field = "x.b" -> <<"x", "b">>
      [] OTHER -> <<field>>

\* the number a numeric value holds
NumValue(v) ==
    CASE v.t = "int32" -> v.i
      [] v.t = "int64" -> v.l
      [] v.t = "float64" -> v.f

\* types.CompareScalars(v, int32(0)) == Equal
EqualsZero(v) == NumValue(v) = 0

RECURSIVE isProjectionInclusionFrom(_, _, _, _)
isProjectionInclusionFrom(projection, i, inclusion, exclusion) ==
    IF i > Len(projection.keys) THEN [inclusion |-> inclusion, err |-> "nil"]
    ELSE
      LET k == projection.keys[i]
          v == projection.m[k]
          including == IF v.t = "bool" THEN v.b ELSE ~EqualsZero(v)
      IN
      IF k = "_id" THEN isProjectionInclusionFrom(projection, i + 1, inclusion, exclusion)
      ELSE IF v.t \notin {"bool", "int32", "int64", "float64"}
      THEN [inclusion |-> inclusion, err |-> "internal"]
      ELSE IF including
      THEN IF exclusion THEN [inclusion |-> inclusion, err |-> "internal"]
           ELSE IF IsDotted(k) THEN [inclusion |-> inclusion, err |-> "internal"]
           ELSE isProjectionInclusionFrom(projection, i + 1, TRUE, exclusion)
      ELSE IF inclusion THEN [inclusion |-> inclusion, err |-> "internal"]
           ELSE isProjectionInclusionFrom(projection, i + 1, inclusion, TRUE)

isProjectionInclusion(projection) ==
    isProjectionInclusionFrom(projection, 1, FALSE, FALSE)

\* one entry "k": "k" of the JSON-object projection
Entry(k) == "\"" \o k \o "\": \"" \o k \o "\""

RECURSIVE inclusionProjectionFrom(_, _, _)
inclusionProjectionFrom(projection, i, sql) ==
    IF i > Len(projection.keys) THEN Append(sql, "}")
    ELSE LET k == projection.keys[i]
         IN IF k = "_id" THEN inclusionProjectionFrom(projection, i + 1, sql)
            ELSE inclusionProjectionFrom(projection, i + 1,
                    (IF i # 1 THEN Append(sql, ", ") ELSE sql) \o <<Entry(k)>>)

inclusionProjection(projection) ==
    LET idEntry == <<Entry("_id"), ", ">>
        head ==
          IF HasKey(projection, "_id")
          THEN LET id == projection.m["_id"]
               IN CASE id.t = "bool" -> IF id.b THEN idEntry ELSE <<>>
                    [] id.t \in {"int32", "int64", "float64"} ->
                         IF ~EqualsZero(id) THEN idEntry ELSE <<>>
                    [] OTHER -> <<>>
          ELSE idEntry
    IN inclusionProjectionFrom(projection, 1, <<"{">> \o head)

Projection(projection) ==
    LET u == Unimplemented(projection, UnimplementedProjectionFields)
        inc == isProjectionInclusion(projection)
    IN IF u # "nil" THEN [sql |-> <<>>, exclusion |-> FALSE, err |-> u]
       ELSE IF DOMAIN projection.m = {} THEN [sql |-> <<"*">>, exclusion |-> FALSE, err |-> "nil"]
       ELSE IF inc.err # "nil" THEN [sql |-> <<>>, exclusion |-> FALSE, err |-> inc.err]
       ELSE IF inc.inclusion
       THEN [sql |-> inclusionProjection(projection), exclusion |-> FALSE, err |-> "nil"]
       ELSE [sql |-> <<"*">>, exclusion |-> TRUE, err |-> "nil"]

\* Inputs of Projection.
ProjectionValues ==
    [k \in {"_id", "a", "b", "a.b", "$slice"} |->
        CASE k = "_id" -> {BoolV(TRUE), BoolV(FALSE), Int32V(1), Float64V(0)}
          [] k = "a" -> {BoolV(TRUE), BoolV(FALSE), Int32V(1), Float64V(0), StringV("x")}
          [] k = "b" -> {BoolV(TRUE), BoolV(FALSE), Int64V(2), Int32V(0)}
          [] k = "a.b" -> {BoolV(TRUE), BoolV(FALSE)}
          [] k = "$slice" -> {Int32V(1)}]

Projections == DocsOver(ProjectionValues, MaxProjectionKeys)

CallProjection ==
    /\ pc = "idle"
    /\ \E projection \in Projections :
          /\ call' = [op |-> "Projection", projection |-> projection]
          /\ ret' = Projection(projection)
    /\ pc' = "done"
    /\ UNCHANGED <<objectIDCounter, objectIDProcess, clock, issued, hanaPool>>

InitProjection ==
    /\ pc = "idle"
    /\ call = NoCall
    /\ ret = NoRet
    /\ objectIDCounter = [hi |-> 0, lo |-> 0]
    /\ objectIDProcess = <<0, 0, 0, 0, 0>>
    /\ clock = 0
    /\ issued = <<>>
    /\ hanaPool = NoPool

NextProjection == CallProjection \/ Return

SpecProjection == InitProjection /\ [][NextProjection]_vars

-----------------------------------------------------------------------------
\* Properties of Projection.

ProjectionReturned == pc = "done" /\ call.op = "Projection"

IsNumber(v) == v.t \in {"int32", "int64", "float64"}

\* true or a non-zero number
Including(v) == (v.t = "bool" /\ v.b) \/ (IsNumber(v) /\ NumValue(v) # 0)

\* false or zero
Excluding(v) == (v.t = "bool" /\ ~v.b) \/ (IsNumber(v) /\ NumValue(v) = 0)

\* the projection includes one non-_id field and excludes another
MixedProjection(p) ==
    \E k1, k2 \in DOMAIN p.m \ {"_id"} : Including(p.m[k1]) /\ Excluding(p.m[k2])

\* the projection names top-level fields only
PlainProjection(p) ==
    \A k \in DOMAIN p.m : ~IsDotted(k) /\ k \notin UnimplementedProjectionFields

\* C6: a projection document that includes one non-_id field and excludes
\* another makes Projection fail with a BadValue error, in either order.
C6_MixedFailsWithBadValue ==
    (ProjectionReturned /\ MixedProjection(call.projection)) => ret.err = "BadValue"

\* C8: all values including => inclusion projection; all values excluding =>
\* exclusion projection with SQL "*"; _id may carry either kind of value
\* without error and an included _id is never classified as excluded.
C8_Classification ==
    (ProjectionReturned /\ PlainProjection(call.projection)
       /\ DOMAIN call.projection.m # {}) =>
        LET p == call.projection
            others == DOMAIN p.m \ {"_id"}
        IN /\ (\A k \in DOMAIN p.m : Including(p.m[k])) =>
                 (ret.err = "nil" /\ ~ret.exclusion /\ Head(ret.sql) = "{")
           /\ (\A k \in DOMAIN p.m : Excluding(p.m[k])) =>
                 (ret.err = "nil" /\ ret.exclusion /\ ret.sql = <<"*">>)
           /\ ((\A k \in others : Including(p.m[k])) \/ (\A k \in others : Excluding(p.m[k])))
                 => ret.err = "nil"
           /\ (HasKey(p, "_id") /\ Including(p.m["_id"]) /\ ret.err = "nil" /\ ~ret.exclusion)
                 => (\E i \in 1..Len(ret.sql) : ret.sql[i] = Entry("_id"))

\* sql is "{", the entries of the keys in E separated by single commas, "}"
WellFormedObject(sql, E) ==
    /\ Len(sql) = 2 * Cardinality(E) + 1
    /\ sql[1] = "{"
    /\ sql[Len(sql)] = "}"
    /\ \A i \in 2..(Len(sql) - 1) :
          IF i % 2 = 0 THEN sql[i] \in {Entry(k) : k \in E} ELSE sql[i] = ", "
    /\ {sql[i] : i \in {j \in 2..(Len(sql) - 1) : j % 2 = 0}} = {Entry(k) : k \in E}

\* C9: for every inclusion projection the SQL is a well-formed JSON-object
\* projection: one entry for _id (unless _id is excluded) and for each
\* included field, each once, separated by exactly one comma, wherever _id
\* stands among the keys.
C9_WellFormedInclusion ==
    (ProjectionReturned /\ ret.err = "nil" /\ ~ret.exclusion
       /\ DOMAIN call.projection.m # {}) =>
        LET p == call.projection
            idIn == ~(HasKey(p, "_id") /\ Excluding(p.m["_id"]))
        IN WellFormedObject(ret.sql,
                            (DOMAIN p.m \ {"_id"}) \cup (IF idIn THEN {"_id"} ELSE {}))

-----------------------------------------------------------------------------
\* Projection post-filter (common package).

\* Document.Remove through the document itself: key and value are dropped
Remove(d, key) ==
    [t |-> "doc",
     keys |-> SelectSeq(d.keys, LAMBDA k : k # key),
     m |-> [k \in DOMAIN d.m \ {key} |-> d.m[k]]]

\* what a holder of an older copy of the document sees after Remove through
\* another copy: the map is shared and has lost the key, the keys slice was
\* shifted in place under a header that kept its length
RemoveSeenByCopy(d, key) ==
    LET n == Len(d.keys)
        at == CHOOSE i \in 1..n : d.keys[i] = key
    IN [t |-> "doc",
        keys |-> [j \in 1..n |-> IF j < at THEN d.keys[j]
                                 ELSE IF j < n THEN d.keys[j + 1] ELSE d.keys[n]],
        m |-> [k \in DOMAIN d.m \ {key} |-> d.m[k]]]

RECURSIVE GetAt(_, _)
GetAt(d, path) == IF path = <<>> THEN d ELSE GetAt(d.m[Head(path)], Tail(path))

RECURSIVE SetAt(_, _, _)
SetAt(d, path, v) ==
    IF path = <<>> THEN v
    ELSE [d EXCEPT !.m[Head(path)] = SetAt(d.m[Head(path)], Tail(path), v)]

\* the locals of the dotted-path loop before its first iteration: next is the
\* pointer to the document, previousDoc and ppDoc are zero documents
DottedStart ==
    [isPtr |-> TRUE, next |-> NilV, nextPath |-> <<>>,
     hasPrev |-> FALSE, prev |-> <<>>, previousS |-> "",
     hasPP |-> FALSE, pp |-> <<>>, ppS |-> "", projErr |-> FALSE]

\* one iteration of the loop over strings.Split(field, ".")
dottedStep(doc, st, s) ==
    IF st.isPtr
    THEN [st EXCEPT !.isPtr = FALSE,
                    !.hasPP = st.hasPrev, !.pp = st.prev,
                    !.previousS = s,
                    !.next = IF HasKey(doc, s) THEN doc.m[s] ELSE NilV,
                    !.nextPath = <<s>>,
                    !.projErr = ~HasKey(doc, s)]
    ELSE IF st.next.t = "doc"
    THEN [st EXCEPT !.hasPP = st.hasPrev, !.pp = st.prev,
                    !.ppS = st.previousS,
                    !.previousS = s,
                    !.hasPrev = TRUE, !.prev = st.nextPath,
                    !.next = IF HasKey(st.next, s) THEN st.next.m[s] ELSE NilV,
                    !.nextPath = Append(st.nextPath, s),
                    !.projErr = ~HasKey(st.next, s)]
    ELSE st

RECURSIVE dottedLoop(_, _, _)
dottedLoop(doc, st, segs) ==
    IF segs = <<>> THEN st ELSE dottedLoop(doc, dottedStep(doc, st, Head(segs)), Tail(segs))

\* the dotted branch of projectDocument: previousDoc.Remove(previousS), then
\* ppDoc.Set(ppS, previousDoc); previousDoc and ppDoc are copies that share
\* their maps with the documents inside doc, a zero ppDoc shares nothing
projectDotted(doc, field) ==
    LET st == dottedLoop(doc, DottedStart, Split(field))
    IN IF st.projErr \/ ~st.hasPrev THEN doc
       ELSE LET previousDoc == GetAt(doc, st.prev)
            IN IF st.hasPP
               THEN SetAt(doc, st.prev, Remove(previousDoc, st.previousS))
               ELSE SetAt(doc, st.prev, RemoveSeenByCopy(previousDoc, st.previousS))

RECURSIVE projectDocumentFrom(_, _, _)

\* the loop of projectDocument over projection.Map(), visited in the given order
projectDocumentFrom(doc, projection, order) ==
    IF order = <<>> THEN doc
    ELSE LET field == Head(order)
         IN projectDocumentFrom(
                IF IsDotted(field) THEN projectDotted(doc, field) ELSE Remove(doc, field),
                projection, Tail(order))

projectDocument(doc, projection, exclusion, order) ==
    projectDocumentFrom(doc, projection, order)

\* ProjectDocuments: orders[i] is the order in which the map range visits the
\* projection's keys for the i-th document
RECURSIVE ProjectDocumentsFrom(_, _, _, _, _)
ProjectDocumentsFrom(docs, projection, exclusion, orders, i) ==
    IF i > Len(docs) THEN [docs |-> docs, err |-> "nil"]
    ELSE IF docs[i].t # "doc" THEN [docs |-> docs, err |-> "internal"]
    ELSE ProjectDocumentsFrom(
             [docs EXCEPT ![i] = projectDocument(docs[i], projection, exclusion, orders[i])],
             projection, exclusion, orders, i + 1)

ProjectDocuments(docs, projection, exclusion, orders) ==
    ProjectDocumentsFrom(docs, projection, exclusion, orders, 1)

\* Inputs of ProjectDocuments: returned documents and exclusion projections.
SomeObjectID == ObjectIDV(1700000000, <<17, 34, 51, 68, 85>>, <<0, 0, 42>>)

ReturnedDocs ==
    {MustMakeDocument(<<<<"_id", SomeObjectID>>, <<"a", Int32V(1)>>, <<"b", Int32V(2)>>,
                        <<"c", Int32V(3)>>>>),
     MustMakeDocument(<<<<"_id", SomeObjectID>>,
                        <<"a", Doc2("b", Int32V(1), "c", Int32V(2))>>, <<"b", Int32V(2)>>>>),
     MustMakeDocument(<<<<"_id", SomeObjectID>>,
                        <<"a", Doc2("b", Doc2("c", Int32V(1), "d", Int32V(2)),
                                    "x", Int32V(5))>>>>),
     Doc1("a", Doc2("b", Int32V(1), "c", Int32V(2))),
     Doc2("a", Int32V(1), "c", Int32V(3))}

DocArrays ==
    SeqsUpTo(ReturnedDocs, MaxDocs) \cup {<<Int32V(1)>>}

PostFilterValues ==
    [k \in {"_id", "b", "c", "a.b", "a.b.c", "a.x"} |->
        IF k = "_id" THEN {BoolV(TRUE), BoolV(FALSE)}
        ELSE IF k = "b" THEN {Int32V(0)}
        ELSE IF k = "c" THEN {Float64V(0)}
        ELSE {BoolV(FALSE)}]

\* the projections that Projection classifies as exclusion projections
ExclusionProjections ==
    {p \in DocsOver(PostFilterValues, MaxProjectionKeys - 1) :
        Projection(p).err = "nil" /\ Projection(p).exclusion}

CallProjectDocuments ==
    /\ pc = "idle"
    /\ \E docs \in DocArrays, projection \in ExclusionProjections :
         \E orders \in [1..Len(docs) -> MapOrders(projection)] :
           LET r == ProjectDocuments(docs, projection, TRUE, orders)
           IN /\ call' = [op |-> "ProjectDocuments", docs |-> docs,
                          projection |-> projection, exclusion |-> TRUE, orders |-> orders]
              /\ ret' = r
    /\ pc' = "done"
    /\ UNCHANGED <<objectIDCounter, objectIDProcess, clock, issued, hanaPool>>

NextPostFilter == CallProjectDocuments \/ Return

SpecPostFilter == InitProjection /\ [][NextPostFilter]_vars

-----------------------------------------------------------------------------
\* Properties of the projection post-filter.

PostFilterReturned == pc = "done" /\ call.op = "ProjectDocuments" /\ ret.err = "nil"

RECURSIVE RemoveAll(_, _)
RemoveAll(d, ks) ==
    IF ks = {} THEN d
    ELSE LET k == CHOOSE x \in ks : TRUE IN RemoveAll(Remove(d, k), ks \ {k})

\* C7: the post-filter removes from every returned document exactly the
\* top-level fields the projection marks as excluded (false/0/0.0) and leaves
\* every other field, an included _id as well, with value and order unchanged.
C7_RemovesExactlyExcluded ==
    (PostFilterReturned /\ PlainProjection(call.projection)) =>
        \A i \in 1..Len(call.docs) :
            ret.docs[i] = RemoveAll(call.docs[i],
                                    {k \in DOMAIN call.projection.m :
                                        Excluding(call.projection.m[k])})

\* the path exists in d: every segment but the last names a document
RECURSIVE PathExists(_, _)
PathExists(d, path) ==
    /\ d.t = "doc"
    /\ HasKey(d, Head(path))
    /\ (Len(path) > 1 => PathExists(d.m[Head(path)], Tail(path)))

\* d without the deepest field of the path, everything else in place
RemoveDeepest(d, path) ==
    LET parent == SubSeq(path, 1, Len(path) - 1)
    IN SetAt(d, parent, Remove(GetAt(d, parent), path[Len(path)]))

\* C10: an exclusion projection on a dotted path removes from each document
\* only the deepest field of the path, leaves parents and siblings in place
\* and leaves the document unchanged when a segment of the path does not exist.
C10_DottedRemovesDeepest ==
    (PostFilterReturned /\ Len(call.projection.keys) = 1
       /\ IsDotted(call.projection.keys[1])) =>
        LET path == Split(call.projection.keys[1])
        IN \A i \in 1..Len(call.docs) :
              ret.docs[i] = IF PathExists(call.docs[i], path)
                            THEN RemoveDeepest(call.docs[i], path)
                            ELSE call.docs[i]

-----------------------------------------------------------------------------
\* Binary codecs (bson.Bool, wire.OpQuery). A reader is the sequence of the
\* bytes not yet read; a Go string is the sequence of its bytes.

\* the element of a one-element set: Only({f(x) : x \in {e}}) is f(e) with e
\* evaluated once
Only(S) == CHOOSE x \in S : TRUE

Drop(r, n) == SubSeq(r, n + 1, Len(r))
Take(r, n) == SubSeq(r, 1, n)

\* bson.Bool.MarshalBinary
BoolMarshalBinary(b) == IF b THEN <<1>> ELSE <<0>>

\* Bool.ReadFrom taking every non-zero byte for true
BoolReadFrom_NonZeroIsTrue(b, r0) ==
    Only({IF r = <<>> THEN [err |-> "EOF", b |-> b, rest |-> r]
          ELSE [err |-> "nil", b |-> r[1] # 0, rest |-> Tail(r)] : r \in {r0}})

\* bson.Bool.ReadFrom: b is the target's value before the call
BoolReadFrom(b, r0) ==
    Only({IF r = <<>> THEN [err |-> "EOF", b |-> b, rest |-> r]
          ELSE CASE r[1] = 0 -> [err |-> "nil", b |-> FALSE, rest |-> Tail(r)]
                 [] r[1] = 1 -> [err |-> "nil", b |-> TRUE, rest |-> Tail(r)]
                 [] OTHER -> [err |-> "unexpected byte", b |-> b, rest |-> Tail(r)] :
          r \in {r0}})

\* binary.Write(bufw, binary.LittleEndian, v) for an int32
WriteInt32(v) ==
    LET u == IF v < 0 THEN (v + 2147483647) + 1 ELSE v
    IN <<u % 256, (u \div 256) % 256, (u \div 65536) % 256,
         (u \div TwoTo24) + (IF v < 0 THEN 128 ELSE 0)>>

\* binary.Read(bufr, binary.LittleEndian, &v) for an int32
ReadInt32(r0) ==
    Only({IF Len(r) < 4 THEN [err |-> "EOF", v |-> 0, rest |-> <<>>]
          ELSE [err |-> "nil",
                v |-> r[1] + 256 * r[2] + 65536 * r[3]
                        + TwoTo24 * (IF r[4] >= 128 THEN r[4] - 256 ELSE r[4]),
                rest |-> Drop(r, 4)] : r \in {r0}})

\* binary.Write for the uint32 of OpQueryFlags
WriteUint32(f) == <<f.lo % 256, (f.lo \div 256) % 256, f.lo \div 65536, f.hi>>

\* binary.Read for the uint32 of OpQueryFlags
ReadUint32(r0) ==
    Only({IF Len(r) < 4 THEN [err |-> "EOF", v |-> [hi |-> 0, lo |-> 0], rest |-> <<>>]
          ELSE [err |-> "nil",
                v |-> [hi |-> r[4], lo |-> r[1] + 256 * r[2] + 65536 * r[3]],
                rest |-> Drop(r, 4)] : r \in {r0}})

\* bson.CString.WriteTo
CStringWriteTo(s) == Append(s, 0)

\* bson.CString.ReadFrom: the bytes up to the first NUL
CStringReadFrom(r0) ==
    Only({IF \A i \in 1..Len(r) : r[i] # 0 THEN [err |-> "EOF", v |-> <<>>, rest |-> <<>>]
          ELSE Only({[err |-> "nil", v |-> Take(r, n - 1), rest |-> Drop(r, n)] :
                       n \in {i \in 1..Len(r) : r[i] = 0 /\ \A j \in 1..(i - 1) : r[j] # 0}}) :
          r \in {r0}})

\* the elements of a document: type byte 0x08, key, bool value
RECURSIVE ElementsWriteTo(_, _)
ElementsWriteTo(d, i) ==
    IF i > Len(d.keys) THEN <<>>
    ELSE <<8>> \o CStringWriteTo(d.keys[i]) \o BoolMarshalBinary(d.m[d.keys[i]].b)
           \o ElementsWriteTo(d, i + 1)

\* bson.Document.WriteTo: length prefix, elements, terminator
DocumentWriteTo(d) ==
    LET e == ElementsWriteTo(d, 1)
    IN WriteInt32(Len(e) + 5) \o e \o <<0>>

\* the element loop of bson.Document.ReadFrom over the document's own bytes
RECURSIVE ElementsReadFrom(_, _)
ElementsReadFrom(buf0, pairs0) ==
    Only({IF buf = <<>> THEN [err |-> "EOF", pairs |-> pairs]
          ELSE IF buf[1] = 0
          THEN [err |-> IF Len(buf) = 1 THEN "nil" ELSE "unexpected end of the document",
                pairs |-> pairs]
          ELSE Only({
                 IF k.err # "nil" THEN [err |-> k.err, pairs |-> pairs]
                 ELSE IF buf[1] # 8 THEN [err |-> "unhandled element type", pairs |-> pairs]
                 ELSE Only({IF v.err # "nil" THEN [err |-> v.err, pairs |-> pairs]
                            ELSE ElementsReadFrom(v.rest, Append(pairs, <<k.v, BoolV(v.b)>>)) :
                            v \in {BoolReadFrom(FALSE, k.rest)}}) :
                 k \in {CStringReadFrom(Tail(buf))}}) :
          buf \in {buf0}, pairs \in {pairs0}})

\* the result of Document.ReadFrom when it fails
DocumentError(e) == [err |-> e, doc |-> EmptyDoc, rest |-> <<>>]

\* bson.Document.ReadFrom
DocumentReadFrom(r) ==
    Only({IF l.err # "nil" THEN DocumentError(l.err)
          ELSE IF l.v < 5 THEN DocumentError("invalid length")
          ELSE IF Len(l.rest) < l.v - 4 THEN DocumentError("EOF")
          ELSE Only({
                 IF e.err # "nil" THEN DocumentError(e.err)
                 ELSE IF \E i, j \in 1..Len(e.pairs) :
                            i # j /\ e.pairs[i][1] = e.pairs[j][1]
                 THEN DocumentError("duplicate key")
                 ELSE [err |-> "nil", doc |-> MustMakeDocument(e.pairs),
                       rest |-> Drop(l.rest, l.v - 4)] :
                 e \in {ElementsReadFrom(Take(l.rest, l.v - 4), <<>>)}}) :
          l \in {ReadInt32(r)}})

\* the zero value of OpQuery; NilV is the nil *types.Document
OpQueryZero ==
    [Flags |-> [hi |-> 0, lo |-> 0], FullCollectionName |-> <<>>, NumberToSkip |-> 0,
     NumberToReturn |-> 0, Query |-> EmptyDoc, ReturnFieldsSelector |-> NilV]

\* the result of readFrom: an error, the query as far as assigned, the bytes left
ReadResult(err, query, rest) == [err |-> err, query |-> query, rest |-> rest]

\* readFrom from the returnFieldsSelector on: read only if a byte is left
readSelector(query, rest) ==
    IF rest = <<>> THEN ReadResult("nil", query, rest)
    ELSE Only({IF sel.err # "nil" THEN ReadResult(sel.err, query, <<>>)
               ELSE ReadResult("nil", [query EXCEPT !.ReturnFieldsSelector = sel.doc],
                               sel.rest) :
               sel \in {DocumentReadFrom(rest)}})

\* readFrom from the query document on
readQuery(query, rest) ==
    Only({IF q.err # "nil" THEN ReadResult(q.err, query, <<>>)
          ELSE readSelector([query EXCEPT !.Query = q.doc], q.rest) :
          q \in {DocumentReadFrom(rest)}})

\* readFrom from NumberToSkip on
readNumbers(query, rest) ==
    Only({IF skip.err # "nil" THEN ReadResult(skip.err, query, <<>>)
          ELSE Only({IF return.err # "nil"
                     THEN ReadResult(return.err, [query EXCEPT !.NumberToSkip = skip.v], <<>>)
                     ELSE readQuery([query EXCEPT !.NumberToSkip = skip.v,
                                                  !.NumberToReturn = return.v],
                                    return.rest) :
                     return \in {ReadInt32(skip.rest)}}) :
          skip \in {ReadInt32(rest)}})

\* OpQuery.readFrom: the fields read before an error stay assigned
readFrom(query0, r) ==
    Only({IF flags.err # "nil" THEN ReadResult(flags.err, query, <<>>)
          ELSE Only({IF col.err # "nil"
                     THEN ReadResult(col.err, [query EXCEPT !.Flags = flags.v], <<>>)
                     ELSE readNumbers([query EXCEPT !.Flags = flags.v,
                                                    !.FullCollectionName = col.v],
                                      col.rest) :
                     col \in {CStringReadFrom(flags.rest)}}) :
          flags \in {ReadUint32(r)}, query \in {query0}})

\* UnmarshalBinary that does not look for bytes left after the message
UnmarshalBinary_NoEndCheck(query, b) ==
    Only({[err |-> r.err, query |-> r.query] : r \in {readFrom(query, b)}})

\* OpQuery.UnmarshalBinary into the value query
UnmarshalBinary(query, b) ==
    Only({IF r.err # "nil" THEN [err |-> r.err, query |-> r.query]
          ELSE IF r.rest # <<>>
          THEN [err |-> "unexpected end of the OpQuery", query |-> r.query]
          ELSE [err |-> "nil", query |-> r.query] :
          r \in {readFrom(query, b)}})

\* MarshalBinary that never writes the returnFieldsSelector
MarshalBinary_NoSelector(query) ==
    WriteUint32(query.Flags) \o CStringWriteTo(query.FullCollectionName)
      \o WriteInt32(query.NumberToSkip) \o WriteInt32(query.NumberToReturn)
      \o DocumentWriteTo(query.Query)

\* OpQuery.MarshalBinary
MarshalBinary(query) ==
    WriteUint32(query.Flags) \o CStringWriteTo(query.FullCollectionName)
      \o WriteInt32(query.NumberToSkip) \o WriteInt32(query.NumberToReturn)
      \o DocumentWriteTo(query.Query)
      \o (IF query.ReturnFieldsSelector # NilV
          THEN DocumentWriteTo(query.ReturnFieldsSelector)
          ELSE <<>>)

-----------------------------------------------------------------------------
\* Inputs of the codecs.

\* the keys a, b of the documents on the wire, as bytes
WireKeys == {<<97>>, <<98>>}

WireDocs == DocsOver([k \in WireKeys |-> {BoolV(TRUE), BoolV(FALSE)}], MaxWireKeys)

\* OpQuery values without a returnFieldsSelector
PlainQueries ==
    {[Flags |-> f, FullCollectionName |-> n, NumberToSkip |-> s, NumberToReturn |-> k,
      Query |-> q, ReturnFieldsSelector |-> NilV] :
        f \in {[hi |-> 0, lo |-> 0], [hi |-> 128, lo |-> 65540]},
        n \in {<<>>, <<97, 46, 36, 99>>}, s \in {0, 258}, k \in {-1, 1}, q \in WireDocs}

Queries ==
    PlainQueries
      \cup {[q EXCEPT !.ReturnFieldsSelector = d] : q \in PlainQueries, d \in WireDocs}

\* what may follow the query document in a message body
Extras ==
    {<<>>, <<0>>, <<5>>, <<4, 0, 0, 0>>, <<5, 0, 0, 0>>, <<5, 0, 0, 0, 1>>,
     <<6, 0, 0, 0, 0>>, <<9, 0, 0, 0, 8, 97, 0, 2, 0>>, <<9, 0, 0, 0, 1, 97, 0, 1, 0>>,
     <<8, 0, 0, 0, 8, 97, 1, 0>>,
     <<13, 0, 0, 0, 8, 97, 0, 1, 8, 97, 0, 0, 0>>}
      \cup {DocumentWriteTo(d) : d \in WireDocs}
      \cup {DocumentWriteTo(d) \o <<0>> : d \in WireDocs}
      \cup {DocumentWriteTo(d) \o DocumentWriteTo(EmptyDoc) : d \in WireDocs}

\* the inputs handed to Bool.ReadFrom
BoolInputs == {<<>>, <<0>>, <<1>>, <<2>>, <<255>>, <<1, 0>>, <<0, 7>>, <<7, 1>>}

\* MarshalBinary of a query, then UnmarshalBinary of the bytes into a new value
CallOpQueryRoundTrip ==
    /\ pc = "idle"
    /\ \E query \in Queries :
          \E b \in {MarshalBinary(query)} :
            \E r \in {UnmarshalBinary(OpQueryZero, b)} :
              /\ call' = [op |-> "OpQuery.RoundTrip", query |-> query]
              /\ ret' = [b |-> b, err |-> r.err, query |-> r.query]
    /\ pc' = "done"
    /\ UNCHANGED <<objectIDCounter, objectIDProcess, clock, issued, hanaPool>>

\* UnmarshalBinary of a body into a new value, then MarshalBinary of the value:
\* the body is a message without selector followed by extra bytes, less the
\* last cut bytes
CallOpQueryUnmarshalBinary ==
    /\ pc = "idle"
    /\ \E query \in PlainQueries, extra \in Extras, cut \in {0, 1} :
          \E base \in {MarshalBinary(query)} :
            \E b \in {Take(base \o extra, Len(base) + Len(extra) - cut)} :
              \E r \in {UnmarshalBinary(OpQueryZero, b)} :
                /\ call' = [op |-> "OpQuery.UnmarshalBinary", b |-> b,
                               base |-> base, extra |-> extra, cut |-> cut]
                /\ ret' = [err |-> r.err, query |-> r.query,
                              again |-> IF r.err = "nil" THEN MarshalBinary(r.query)
                                        ELSE <<>>]
    /\ pc' = "done"
    /\ UNCHANGED <<objectIDCounter, objectIDProcess, clock, issued, hanaPool>>

\* Bool.ReadFrom of the bytes r into a target holding b
CallBoolReadFrom ==
    /\ pc = "idle"
    /\ \E b \in BOOLEAN, r \in BoolInputs :
          LET v == BoolReadFrom(b, r)
          IN /\ call' = [op |-> "Bool.ReadFrom", b |-> b, r |-> r]
             /\ ret' = [err |-> v.err, b |-> v.b, rest |-> v.rest]
    /\ pc' = "done"
    /\ UNCHANGED <<objectIDCounter, objectIDProcess, clock, issued, hanaPool>>

\* Bool.MarshalBinary of b, then Bool.ReadFrom of the bytes into a target
CallBoolRoundTrip ==
    /\ pc = "idle"
    /\ \E b \in BOOLEAN, target \in BOOLEAN :
          LET bytes == BoolMarshalBinary(b)
              v == BoolReadFrom(target, bytes)
          IN /\ call' = [op |-> "Bool.RoundTrip", b |-> b, target |-> target]
             /\ ret' = [bytes |-> bytes, err |-> v.err, b |-> v.b, rest |-> v.rest]
    /\ pc' = "done"
    /\ UNCHANGED <<objectIDCounter, objectIDProcess, clock, issued, hanaPool>>

NextWire ==
    \/ CallOpQueryRoundTrip
    \/ CallOpQueryUnmarshalBinary
    \/ CallBoolReadFrom
    \/ CallBoolRoundTrip
    \/ Return

SpecWire == InitWhere /\ [][NextWire]_vars

-----------------------------------------------------------------------------
\* Claims about the codecs.

\* C16: UnmarshalBinary(MarshalBinary(q)) succeeds and yields q for every
\* OpQuery q, a nil returnFieldsSelector staying nil and a present one staying
\* present; and for every body b that UnmarshalBinary accepts, MarshalBinary
\* of the decoded value is b byte for byte.
C16_OpQueryRoundTrip ==
    /\ (pc = "done" /\ call.op = "OpQuery.RoundTrip") =>
          /\ ret.err = "nil"
          /\ ret.query = call.query
          /\ (ret.query.ReturnFieldsSelector = NilV)
                <=> (call.query.ReturnFieldsSelector = NilV)
    /\ (pc = "done" /\ call.op = "OpQuery.UnmarshalBinary" /\ ret.err = "nil") =>
          ret.again = call.b

\* C16 witness: a body that carries a returnFieldsSelector of one element was
\* accepted, its selector decoded, and encoding the value gave the body back.
C16_Witness ==
    /\ pc = "done"
    /\ call.op = "OpQuery.UnmarshalBinary"
    /\ call.extra = <<9, 0, 0, 0, 8, 97, 0, 1, 0>>
    /\ call.cut = 0
    /\ ret.err = "nil"
    /\ ret.query.ReturnFieldsSelector = MustMakeDocument(<<<<(<<97>>), BoolV(TRUE)>>>>)
    /\ ret.again = call.b

\* the bytes are the encoding of exactly one document
IsOneDocument(bytes) == \E d \in WireDocs : bytes = DocumentWriteTo(d)

\* C17: a body made of a complete message without selector followed by
\* further bytes is accepted by UnmarshalBinary only if those bytes are
\* exactly one complete document that ends the body (and is accepted then);
\* any byte left after it is an error.
C17_NoTrailingBytes ==
    (pc = "done" /\ call.op = "OpQuery.UnmarshalBinary" /\ call.cut = 0
                 /\ call.extra # <<>>)
        => (ret.err = "nil" <=> IsOneDocument(call.extra))

\* C17 witness: a body whose selector document is followed by one more byte
\* was rejected.
C17_Witness ==
    /\ pc = "done"
    /\ call.op = "OpQuery.UnmarshalBinary"
    /\ call.extra = <<9, 0, 0, 0, 8, 97, 0, 1, 0, 0>>
    /\ call.cut = 0
    /\ ret.err = "unexpected end of the OpQuery"

\* C18: MarshalBinary of a Bool is the byte 0x01 for true and 0x00 for false
\* and ReadFrom of that byte gives the value back; ReadFrom of any other byte
\* or of empty input returns an error and leaves the target as it was.
C18_BoolCodec ==
    /\ (pc = "done" /\ call.op = "Bool.RoundTrip") =>
          /\ ret.bytes = (IF call.b THEN <<1>> ELSE <<0>>)
          /\ ret.err = "nil"
          /\ ret.b = call.b
    /\ (pc = "done" /\ call.op = "Bool.ReadFrom"
          /\ (call.r = <<>> \/ call.r[1] \notin {0, 1})) =>
          /\ ret.err # "nil"
          /\ ret.b = call.b

\* C18 witness: ReadFrom of the byte 0x02 into a target holding false failed
\* and the target still holds false.
C18_Witness ==
    /\ pc = "done"
    /\ call.op = "Bool.ReadFrom"
    /\ call.r = <<2>>
    /\ ~call.b
    /\ ret.err = "unexpected byte"
    /\ ~ret.b

-----------------------------------------------------------------------------
\* The command registry (handlers package) and the process (cmd/ferretdb).

\* the static registry: key, name, which of handler and storageHandler is set
commands ==
    LET entries == <<
       <<"buildInfo", [name |-> "buildInfo", shape |-> "handler", handler |-> "MsgBuildInfo"]>>,
       <<"usersInfo", [name |-> "usersInfo", shape |-> "handler", handler |-> "MsgUsersInfo"]>>,
       <<"rolesInfo", [name |-> "rolesInfo", shape |-> "handler", handler |-> "MsgRolesInfo"]>>,
       <<"getlasterror", [name |-> "getlasterror", shape |-> "handler", handler |-> "MsgGetLastError"]>>,
       <<"getLastError", [name |-> "getLastError", shape |-> "handler", handler |-> "MsgGetLastError"]>>,
       <<"connectionStatus", [name |-> "connectionStatus", shape |-> "handler", handler |-> "MsgConnectionStatus"]>>,
       <<"create", [name |-> "create", shape |-> "handler", handler |-> "MsgCreate"]>>,
       <<"dbStats", [name |-> "dbStats", shape |-> "handler", handler |-> "MsgDBStats"]>>,
       <<"drop", [name |-> "drop", shape |-> "handler", handler |-> "MsgDrop"]>>,
       <<"dropDatabase", [name |-> "dropDatabase", shape |-> "handler", handler |-> "MsgDropDatabase"]>>,
       <<"getLog", [name |-> "getLog", shape |-> "handler", handler |-> "MsgGetLog"]>>,
       <<"hostInfo", [name |-> "hostInfo", shape |-> "handler", handler |-> "MsgHostInfo"]>>,
       <<"isMaster", [name |-> "isMaster", shape |-> "handler", handler |-> "MsgHello"]>>,
       <<"hello", [name |-> "hello", shape |-> "handler", handler |-> "MsgHello"]>>,
       <<"listCollections", [name |-> "listCollections", shape |-> "handler", handler |-> "MsgListCollections"]>>,
       <<"listDatabases", [name |-> "listDatabases", shape |-> "handler", handler |-> "MsgListDatabases"]>>,
       <<"listCommands", [name |-> "listCommands", shape |-> "none", handler |-> ""]>>,
       <<"ping", [name |-> "ping", shape |-> "handler", handler |-> "MsgPing"]>>,
       <<"whatsmyuri", [name |-> "whatsmyuri", shape |-> "handler", handler |-> "MsgWhatsMyURI"]>>,
       <<"authenticate", [name |-> "authenticate", shape |-> "handler", handler |-> "MsgAuthenticate"]>>,
       <<"delete", [name |-> "delete", shape |-> "storageHandler", handler |-> "MsgDelete"]>>,
       <<"find", [name |-> "find", shape |-> "storageHandler", handler |-> "MsgFindOrCount"]>>,
       <<"findAndModify", [name |-> "findAndModify", shape |-> "storageHandler", handler |-> "MsgFindAndModify"]>>,
       <<"count", [name |-> "count", shape |-> "storageHandler", handler |-> "MsgFindOrCount"]>>,
       <<"insert", [name |-> "insert", shape |-> "storageHandler", handler |-> "MsgInsert"]>>,
       <<"update", [name |-> "update", shape |-> "storageHandler", handler |-> "MsgUpdate"]>>,
       <<"debug_error", [name |-> "debug_error", shape |-> "handler", handler |-> "func"]>>,
       <<"debug_panic", [name |-> "debug_panic", shape |-> "handler", handler |-> "func"]>>>>
    IN [k \in {entries[i][1] : i \in 1..Len(entries)} |->
          entries[CHOOSE i \in 1..Len(entries) : entries[i][1] = k][2]]

\* strings.ToLower over the command names the model uses
ToLower(s) ==
    CASE s = "buildInfo" -> "buildinfo"
      [] s = "collStats" -> "collstats"
      [] s = "connectionStatus" -> "connectionstatus"
      [] s = "createIndexes" -> "createindexes"
      [] s = "dataSize" -> "datasize"
      [] s = "dbStats" -> "dbstats"
      [] s = "dropDatabase" -> "dropdatabase"
      [] s = "findAndModify" -> "findandmodify"
      [] s = "getCmdLineOpts" -> "getcmdlineopts"
      [] s = "getLastError" -> "getlasterror"
      [] s = "getLog" -> "getlog"
      [] s = "getParameter" -> "getparameter"
      [] s = "hostInfo" -> "hostinfo"
      [] s = "isMaster" -> "ismaster"
      [] s = "listCollections" -> "listcollections"
      [] s = "listCommands" -> "listcommands"
      [] s = "listDatabases" -> "listdatabases"
      [] s = "rolesInfo" -> "rolesinfo"
      [] s = "serverStatus" -> "serverstatus"
      [] s = "usersInfo" -> "usersinfo"
      [] OTHER -> s

\* the names of the registered commands
CommandNames == {commands[k].name : k \in DOMAIN commands}

\* the names of the commands whose registry entries are commented out
UnsupportedNames ==
    {"collStats", "createIndexes", "dataSize", "getCmdLineOpts", "getParameter",
     "serverStatus"}

\* the first keys of the requests: command names as registered, lower-cased,
\* and names of no command
RequestKeys ==
    CommandNames \cup {ToLower(n) : n \in CommandNames} \cup UnsupportedNames
      \cup {"frobnicate"}

\* the registry entry found under the lower-cased first key of a request
Lookup(key) ==
    LET cmd == ToLower(key)
    IN IF cmd \in DOMAIN commands
       THEN [found |-> TRUE, name |-> commands[cmd].name]
       ELSE [found |-> FALSE, name |-> ""]

\* what main has met so far: the step that failed at start-up ("none" if
\* none), the error l.Run returned, the first key of the last request
MainStart == [op |-> "main", version |-> FALSE, startup |-> "none", runErr |-> "none",
              key |-> ""]

\* the process's exit status (-1 while it runs) and the last lookup's result
Running == [exit |-> -1, found |-> FALSE, name |-> ""]

\* os.Exit(code), or main returning (code 0), or a panic (code 2)
Exit(code) ==
    /\ pc' = "exited"
    /\ ret' = [ret EXCEPT !.exit = code]

\* flag.Parse and the --version branch
MainFlags ==
    /\ pc = "start"
    /\ \E version \in BOOLEAN :
          /\ call' = [call EXCEPT !.version = version]
          /\ IF version THEN Exit(0) ELSE pc' = "mode" /\ ret' = ret
    /\ UNCHANGED <<objectIDCounter, objectIDProcess, clock, issued, hanaPool>>

\* the search of *modeF in clientconn.AllModes; Fatalf exits with status 1
MainMode ==
    /\ pc = "mode"
    /\ \E found \in BOOLEAN :
          IF found THEN pc' = "pool" /\ UNCHANGED <<call, ret>>
          ELSE call' = [call EXCEPT !.startup = "mode"] /\ Exit(1)
    /\ UNCHANGED <<objectIDCounter, objectIDProcess, clock, issued, hanaPool>>

\* hana.CreatePool; logger.Fatal exits with status 1
MainCreatePool ==
    /\ pc = "pool"
    /\ \E err \in BOOLEAN :
          IF err THEN call' = [call EXCEPT !.startup = "pool"] /\ Exit(1)
          ELSE pc' = "run" /\ UNCHANGED <<call, ret>>
    /\ UNCHANGED <<objectIDCounter, objectIDProcess, clock, issued, hanaPool>>

\* l.Run(ctx) binds the listen address: it returns the error if it cannot
ListenerBind ==
    /\ pc = "run"
    /\ \E err \in BOOLEAN :
          IF err
          THEN /\ call' = [call EXCEPT !.startup = "bind", !.runErr = "bind"]
               /\ pc' = "stopped"
          ELSE pc' = "serving" /\ call' = call
    /\ UNCHANGED <<ret, objectIDCounter, objectIDProcess, clock, issued, hanaPool>>

\* a request arrives while l.Run serves: the router looks its command up
Dispatch ==
    /\ pc = "serving"
    /\ \E key \in RequestKeys :
          /\ call' = [call EXCEPT !.key = key]
          /\ ret' = [exit |-> -1] @@ Lookup(key)
    /\ UNCHANGED <<pc, objectIDCounter, objectIDProcess, clock, issued, hanaPool>>

\* l.Run(ctx) returns: nil, context.Canceled after a signal, or another error
ListenerStop ==
    /\ pc = "serving"
    /\ \E err \in {"nil", "Canceled", "accept"} : call' = [call EXCEPT !.runErr = err]
    /\ pc' = "stopped"
    /\ UNCHANGED <<ret, objectIDCounter, objectIDProcess, clock, issued, hanaPool>>

\* the rest of main: the error of l.Run is logged, the metrics are written
\* (a failure there panics), and main returns
MainFinish ==
    /\ pc = "stopped"
    /\ \E gatherErr \in BOOLEAN : Exit(IF gatherErr THEN 2 ELSE 0)
    /\ UNCHANGED <<call, objectIDCounter, objectIDProcess, clock, issued, hanaPool>>

InitProcess ==
    /\ pc = "start"
    /\ call = MainStart
    /\ ret = Running
    /\ objectIDCounter = [hi |-> 0, lo |-> 0]
    /\ objectIDProcess = <<0, 0, 0, 0, 0>>
    /\ clock = 0
    /\ issued = <<>>
    /\ hanaPool = NoPool

NextProcess ==
    \/ MainFlags
    \/ MainMode
    \/ MainCreatePool
    \/ ListenerBind
    \/ Dispatch
    \/ ListenerStop
    \/ MainFinish

SpecProcess == InitProcess /\ [][NextProcess]_vars

\* C19: the process exits with a non-zero status whenever the pool cannot
\* connect or the listener cannot bind its address, and it exits with status 0
\* (other than for --version) only after the listener returned nil or
\* context.Canceled.
C19_ExitStatus ==
    (pc = "exited" /\ ~call.version) =>
        /\ call.startup \in {"pool", "bind"} => ret.exit # 0
        /\ ret.exit = 0 => call.runErr \in {"nil", "Canceled"}

\* C20: every key of the registry is the lower-case form of the name stored
\* in its entry, and the lookup with the lower-cased first key of a request
\* finds the command of that name, for every registered name.
C20_LowercaseKeys ==
    (pc = "serving" /\ call.key \in CommandNames) =>
        /\ \A k \in DOMAIN commands : k = ToLower(commands[k].name)
        /\ ret.found
        /\ ret.name = call.key

-----------------------------------------------------------------------------
\* The command handlers: MsgHello (handlers package), MsgCreateIndexes and
\* MsgListCollections (jsonb1 storage), and the router that leads to them.

\* bson.MaxDocumentLen: 16 MiB
MaxDocumentLen == 16 * 1024 * 1024
\* wire.MaxMsgLen: 48 MiB
MaxMsgLen == 48 * 1024 * 1024

\* time.Time as a typed value
TimeV(now) == [t |-> "time", sec |-> now]

\* wire.OpMsg: a message holds its sections' documents
OpMsg(documents) == [documents |-> documents]

\* wire.OpMsg.Document: the single document of the message, or an error
OpMsgDocument(msg) ==
    IF Len(msg.documents) = 1
    THEN [document |-> msg.documents[1], err |-> "nil"]
    ELSE [document |-> NilV, err |-> "internal"]

\* m[key] of document.Map(): nil for an absent key
MapGet(document, key) == IF HasKey(document, key) THEN document.m[key] ELSE NilV

\* what a handler returns: the documents of the reply, the error, the
\* databases whose tables it asked the backend for
Handled(reply, err, queried) == [reply |-> reply, err |-> err, queried |-> queried]

\* MsgHello with a lower wire version
MsgHello_OldWireVersion(msg, now) ==
    Handled(<<MustMakeDocument(<<
                <<"helloOk", BoolV(TRUE)>>,
                <<"ismaster", BoolV(TRUE)>>,
                <<"maxBsonObjectSize", Int32V(MaxDocumentLen)>>,
                <<"maxMessageSizeBytes", Int32V(MaxMsgLen)>>,
                <<"maxWriteBatchSize", Int32V(100000)>>,
                <<"localTime", TimeV(now)>>,
                <<"minWireVersion", Int32V(6)>>,
                <<"maxWireVersion", Int32V(13)>>,
                <<"readOnly", BoolV(FALSE)>>,
                <<"ok", Float64V(1)>> >>)>>,
            "nil", <<>>)

\* Handler.MsgHello
MsgHello(msg, now) ==
    Handled(<<MustMakeDocument(<<
                <<"helloOk", BoolV(TRUE)>>,
                <<"ismaster", BoolV(TRUE)>>,
                <<"maxBsonObjectSize", Int32V(MaxDocumentLen)>>,
                <<"maxMessageSizeBytes", Int32V(MaxMsgLen)>>,
                <<"maxWriteBatchSize", Int32V(100000)>>,
                <<"localTime", TimeV(now)>>,
                <<"minWireVersion", Int32V(13)>>,
                <<"maxWireVersion", Int32V(13)>>,
                <<"readOnly", BoolV(FALSE)>>,
                <<"ok", Float64V(1)>> >>)>>,
            "nil", <<>>)

\* storage.MsgCreateIndexes
MsgCreateIndexes(msg) ==
    Handled(<<Doc1("ok", Float64V(1))>>, "nil", <<>>)

\* hanaPool.Tables: the table names of db, or the backend's error
Tables(pool, db) ==
    IF pool.fails \/ db \notin DOMAIN pool.tables
    THEN [names |-> <<>>, err |-> "internal"]
    ELSE [names |-> pool.tables[db], err |-> "nil"]

\* the loop of MsgListCollections: one document per table name, appended
\* to an array made empty by types.MakeArray
Collections(names) ==
    ArrayV([i \in 1..Len(names) |->
               MustMakeDocument(<<<<"name", StringV(names[i])>>,
                                  <<"type", StringV("collection")>>>>)])

\* the reply of MsgListCollections
ListCollectionsReply(db, names) ==
    MustMakeDocument(<<
        <<"cursor", MustMakeDocument(<<
            <<"id", Int64V(0)>>,
            <<"ns", StringV(db \o ".$cmd.listCollections")>>,
            <<"firstBatch", Collections(names)>> >>)>>,
        <<"ok", Float64V(1)>> >>)

\* MsgListCollections without the nameOnly check
MsgListCollections_NoNameOnlyCheck(msg, pool) ==
    LET d == OpMsgDocument(msg)
        filter == MapGet(d.document, "filter")
        cursor == MapGet(d.document, "cursor")
        db == MapGet(d.document, "$db")
    IN IF d.err # "nil" THEN Handled(<<>>, "internal", <<>>)
       ELSE IF filter.t = "doc" /\ Len(filter.keys) # 0
       THEN Handled(<<>>, "NotImplemented: filter", <<>>)
       ELSE IF cursor.t = "doc" /\ Len(cursor.keys) # 0
       THEN Handled(<<>>, "NotImplemented: cursor", <<>>)
       ELSE IF db.t # "string" THEN Handled(<<>>, "internal", <<>>)
       ELSE LET r == Tables(pool, db.s)
            IN IF r.err # "nil" THEN Handled(<<>>, "internal", <<db.s>>)
               ELSE Handled(<<ListCollectionsReply(db.s, r.names)>>, "nil", <<db.s>>)

\* Handler.MsgListCollections
MsgListCollections(msg, pool) ==
    LET d == OpMsgDocument(msg)
        filter == MapGet(d.document, "filter")
        cursor == MapGet(d.document, "cursor")
        nameOnly == MapGet(d.document, "nameOnly")
        db == MapGet(d.document, "$db")
    IN IF d.err # "nil" THEN Handled(<<>>, "internal", <<>>)
       ELSE IF filter.t = "doc" /\ Len(filter.keys) # 0
       THEN Handled(<<>>, "NotImplemented: filter", <<>>)
       ELSE IF cursor.t = "doc" /\ Len(cursor.keys) # 0
       THEN Handled(<<>>, "NotImplemented: cursor", <<>>)
       ELSE IF nameOnly.t = "bool" /\ ~nameOnly.b
       THEN Handled(<<>>, "NotImplemented: nameOnly", <<>>)
       ELSE IF db.t # "string" THEN Handled(<<>>, "internal", <<>>)
       ELSE LET r == Tables(pool, db.s)
            IN IF r.err # "nil" THEN Handled(<<>>, "internal", <<db.s>>)
               ELSE Handled(<<ListCollectionsReply(db.s, r.names)>>, "nil", <<db.s>>)

\* the handler function of a registry entry, applied
Handle(handler, msg, pool, now) ==
    CASE handler = "MsgHello" -> MsgHello(msg, now)
      [] handler = "MsgListCollections" -> MsgListCollections(msg, pool)
      [] handler = "MsgCreateIndexes" -> MsgCreateIndexes(msg)

\* the router: the command named by the lower-cased first key of the request
\* document is looked up and its handler called; an unknown command is
\* answered with CommandNotFound
Route(msg, pool, now) ==
    LET d == OpMsgDocument(msg)
    IN IF d.err # "nil" \/ d.document.keys = <<>> THEN Handled(<<>>, "internal", <<>>)
       ELSE LET cmd == ToLower(d.document.keys[1])
            IN IF cmd \notin DOMAIN commands
               THEN Handled(<<>>, "CommandNotFound", <<>>)
               ELSE Handle(commands[cmd].handler, msg, pool, now)

\* the databases and the table names of the backend
DBNames == {"test", "prod"}
TableNames == {"t1", "t2", "t3"}

\* the lists of at most MaxTables distinct table names
TableLists ==
    {l \in SeqsUpTo(TableNames, MaxTables) :
        \A i, j \in 1..Len(l) : i # j => l[i] # l[j]}

\* the backends: the tables of each database, and whether its queries fail
Pools == [tables : [DBNames -> TableLists], fails : BOOLEAN]

\* no pair, or one pair of key with one of vals
OptionalPair(key, vals) == {<<>>} \cup {<<<<key, v>>>> : v \in vals}

\* the listCollections requests
ListCollectionsDocuments ==
    {MustMakeDocument(<<<<"listCollections", Int32V(1)>>>> \o f \o c \o n \o db) :
        f \in OptionalPair("filter", {EmptyDoc, Doc1("name", StringV("t1")), Int32V(1)}),
        c \in OptionalPair("cursor", {EmptyDoc, Doc1("batchSize", Int32V(1))}),
        n \in OptionalPair("nameOnly", {BoolV(TRUE), BoolV(FALSE), Int32V(0)}),
        db \in OptionalPair("$db", {StringV("test"), StringV("prod"), Int32V(1)})}

\* the requests of the other commands: the command as first key, with and
\* without arguments
CommandDocuments ==
    {MustMakeDocument(<<<<key, Int32V(1)>>>> \o a \o db) :
        key \in {"hello", "isMaster", "ismaster", "createIndexes", "createindexes",
                 "frobnicate"},
        a \in OptionalPair("indexes", {ArrayV(<<Doc1("name", StringV("i"))>>)})
              \cup OptionalPair("helloOk", {BoolV(FALSE)}),
        db \in OptionalPair("$db", {StringV("test")})}

\* the messages a client sends: one document, or a message without a single
\* document
Messages(documents) == {OpMsg(<<d>>) : d \in documents} \cup {OpMsg(<<>>)}

\* the entries of the registry whose handler is MsgHello
HelloKeys == {k \in DOMAIN commands : commands[k].handler = "MsgHello"}

\* MsgHello is called through the registry entry key
CallMsgHello ==
    /\ pc = "idle"
    /\ \E key \in HelloKeys, msg \in Messages(CommandDocuments) :
          /\ call' = [op |-> "MsgHello", key |-> key, msg |-> msg]
          /\ ret' = Handle(commands[key].handler, msg, hanaPool, clock)
    /\ pc' = "done"
    /\ UNCHANGED <<objectIDCounter, objectIDProcess, clock, issued, hanaPool>>

\* MsgCreateIndexes is called on the storage
CallMsgCreateIndexes ==
    /\ pc = "idle"
    /\ \E msg \in Messages(CommandDocuments) :
          /\ call' = [op |-> "MsgCreateIndexes", key |-> "", msg |-> msg]
          /\ ret' = MsgCreateIndexes(msg)
    /\ pc' = "done"
    /\ UNCHANGED <<objectIDCounter, objectIDProcess, clock, issued, hanaPool>>

\* MsgListCollections is called
CallMsgListCollections ==
    /\ pc = "idle"
    /\ \E msg \in Messages(ListCollectionsDocuments) :
          /\ call' = [op |-> "MsgListCollections", key |-> "", msg |-> msg]
          /\ ret' = MsgListCollections(msg, hanaPool)
    /\ pc' = "done"
    /\ UNCHANGED <<objectIDCounter, objectIDProcess, clock, issued, hanaPool>>

\* a client sends a command and the router answers it
CallRoute ==
    /\ pc = "idle"
    /\ \E msg \in Messages(CommandDocuments \cup ListCollectionsDocuments) :
          /\ call' = [op |-> "Route", key |-> "", msg |-> msg]
          /\ ret' = Route(msg, hanaPool, clock)
    /\ pc' = "done"
    /\ UNCHANGED <<objectIDCounter, objectIDProcess, clock, issued, hanaPool>>

\* time passes between two requests
TickHandlers ==
    /\ pc = "idle"
    /\ clock < MaxTicks
    /\ clock' = clock + 1
    /\ UNCHANGED <<pc, call, ret, objectIDCounter, objectIDProcess, issued, hanaPool>>

InitHandlers ==
    /\ pc = "idle"
    /\ call = NoCall
    /\ ret = NoRet
    /\ objectIDCounter = [hi |-> 0, lo |-> 0]
    /\ objectIDProcess = <<0, 0, 0, 0, 0>>
    /\ clock = 0
    /\ issued = <<>>
    /\ hanaPool \in Pools

NextHandlers ==
    CallMsgHello \/ CallMsgCreateIndexes \/ CallMsgListCollections \/ CallRoute
      \/ TickHandlers \/ Return

SpecHandlers == InitHandlers /\ [][NextHandlers]_vars

\* a handler returned
Answered(op) == pc = "done" /\ call.op = op

\* the first key of the document of the request, "" if it has none
RequestCommand ==
    IF Len(call.msg.documents) = 1 /\ call.msg.documents[1].keys # <<>>
    THEN call.msg.documents[1].keys[1]
    ELSE ""

\* C21: a createIndexes command sent by a client is answered with the single
\* reply document {ok: 1.0}, whatever its arguments, without any access to
\* the backend; so is every direct call of the handler.
C21_CreateIndexesAcknowledged ==
    (\/ Answered("MsgCreateIndexes")
     \/ (Answered("Route") /\ RequestCommand = "createIndexes")) =>
        /\ ret.err = "nil"
        /\ ret.reply = <<Doc1("ok", Float64V(1))>>
        /\ ret.queried = <<>>

\* C22: hello and isMaster are registered with the same handler; its reply is
\* one document with ismaster true, helloOk true, maxBsonObjectSize 16777216,
\* minWireVersion 13, maxWireVersion 13 and ok 1.0, whatever the request
\* holds, and it does not access the backend.
C22_HelloReply ==
    Answered("MsgHello") =>
        /\ commands["hello"].handler = commands["isMaster"].handler
        /\ commands["hello"].shape = "handler"
        /\ commands["isMaster"].shape = "handler"
        /\ {"hello", "isMaster"} \subseteq HelloKeys
        /\ ret.err = "nil"
        /\ Len(ret.reply) = 1
        /\ LET m == ret.reply[1].m
           IN /\ {"ismaster", "helloOk", "maxBsonObjectSize", "minWireVersion",
                  "maxWireVersion", "ok"} \subseteq DOMAIN m
              /\ m["ismaster"] = BoolV(TRUE)
              /\ m["helloOk"] = BoolV(TRUE)
              /\ m["maxBsonObjectSize"] = Int32V(16777216)
              /\ m["minWireVersion"] = Int32V(13)
              /\ m["maxWireVersion"] = Int32V(13)
              /\ m["ok"] = Float64V(1)
        /\ ret.queried = <<>>

\* C22 witness: the handler registered as isMaster answered, after the clock
\* advanced, a request that asks for helloOk false.
C22_Witness ==
    /\ Answered("MsgHello")
    /\ call.key = "isMaster"
    /\ RequestCommand = "isMaster"
    /\ HasKey(call.msg.documents[1], "helloOk")
    /\ clock = 1
    /\ ret.reply[1].m["helloOk"] = BoolV(TRUE)
    /\ ret.reply[1].m["localTime"] = TimeV(1)

\* a document with at least one key
NonEmptyDocument(v) == v.t = "doc" /\ v.keys # <<>>

\* the value of key in the request's document, nil without such a key or
\* without a document
RequestValue(key) ==
    IF Len(call.msg.documents) = 1
    THEN MapGet(call.msg.documents[1], key)
    ELSE NilV

\* the request has no non-empty filter, no non-empty cursor, no nameOnly
\* equal to false, and a string $db
ListsCollections ==
    /\ Len(call.msg.documents) = 1
    /\ ~NonEmptyDocument(RequestValue("filter"))
    /\ ~NonEmptyDocument(RequestValue("cursor"))
    /\ RequestValue("nameOnly") # BoolV(FALSE)
    /\ RequestValue("$db").t = "string"

\* C27: MsgListCollections asks the backend for the tables of $db exactly
\* when the request has no non-empty filter, no non-empty cursor, no nameOnly
\* equal to false and a string $db; the reply then has cursor id 0 and a
\* firstBatch of one {name, type: "collection"} document per table name the
\* backend returned, in the same order. Otherwise it returns an error without
\* any backend call: NotImplemented for filter, cursor, nameOnly, in this
\* order, before $db is looked at.
C27_ListCollections ==
    Answered("MsgListCollections") =>
        /\ ret.queried # <<>> <=> ListsCollections
        /\ ListsCollections =>
              /\ ret.queried = <<RequestValue("$db").s>>
              /\ IF hanaPool.fails THEN ret.err # "nil" /\ ret.reply = <<>>
                 ELSE /\ ret.err = "nil"
                      /\ Len(ret.reply) = 1
                      /\ ret.reply[1].m["cursor"].m["id"] = Int64V(0)
                      /\ LET names == hanaPool.tables[RequestValue("$db").s]
                             firstBatch == ret.reply[1].m["cursor"].m["firstBatch"]
                         IN /\ firstBatch.t = "array"
                            /\ Len(firstBatch.a) = Len(names)
                            /\ \A i \in 1..Len(names) :
                                  firstBatch.a[i] =
                                     Doc2("name", StringV(names[i]),
                                          "type", StringV("collection"))
        /\ ~ListsCollections =>
              /\ ret.reply = <<>>
              /\ ret.queried = <<>>
              /\ ret.err =
                   IF Len(call.msg.documents) # 1 THEN "internal"
                   ELSE IF NonEmptyDocument(RequestValue("filter"))
                   THEN "NotImplemented: filter"
                   ELSE IF NonEmptyDocument(RequestValue("cursor"))
                   THEN "NotImplemented: cursor"
                   ELSE IF RequestValue("nameOnly") = BoolV(FALSE)
                   THEN "NotImplemented: nameOnly"
                   ELSE "internal"

\* C27 witness: a request with an empty filter, nameOnly true and $db "prod"
\* was answered with the two tables of prod in the backend's order.
C27_Witness ==
    /\ Answered("MsgListCollections")
    /\ RequestValue("filter") = EmptyDoc
    /\ RequestValue("nameOnly") = BoolV(TRUE)
    /\ RequestValue("$db") = StringV("prod")
    /\ hanaPool.tables["prod"] = <<"t2", "t1">>
    /\ hanaPool.tables["test"] = <<"t3">>
    /\ ret.queried = <<"prod">>
    /\ ret.reply[1].m["cursor"].m["firstBatch"] =
          ArrayV(<<Doc2("name", StringV("t2"), "type", StringV("collection")),
                   Doc2("name", StringV("t1"), "type", StringV("collection"))>>)

====
